---- MODULE Spec2Model ----
(***************************************************************************)
(* A model of the axiomander verification core: assertion discovery and    *)
(* classification (ast/assertion_finder.py), the purity analyzer           *)
(* (ast/purity_analyzer.py), the weakest-precondition calculator           *)
(* (logic/weakest_precondition.py), the SMT encoder                        *)
(* (logic/smt_translator.py) and the per-function pipeline of the          *)
(* orchestrator (verification/orchestrator.py).                            *)
(*                                                                         *)
(* Source text is modelled as trees of records (one record per ast node,   *)
(* the field names are those of Python's ast module).  Every statement     *)
(* sits on a line of its own, so a statement record (which carries its     *)
(* lineno) identifies one node, as object identity does in the code.       *)
(***************************************************************************)
EXTENDS Integers, Sequences, FiniteSets

VARIABLES
    pc,          \* position of the orchestrator inside verify_source / verify_function
    unit,        \* the parsed source unit being verified (ast.Module)
    todo,        \* function definitions of the unit not yet verified
    func,        \* the function definition verify_function is working on
    infos,       \* function_assertions: AssertionInfo records of func
    pre,         \* preconditions list of verify_function
    post,        \* postconditions still to check
    other,       \* other_assertions still to check
    assumed,     \* preconditions added to the solver as hard constraints
    enc,         \* the SMTTranslator instance shared by all verifications
    acc,         \* _accumulated_constraints of the orchestrator
    result,      \* the VerificationResult under construction
    results,     \* results list of the running verify_source
    runs,        \* completed verify_source calls: unit and results
    wp,          \* state of the weakest-precondition calculator run
    pur,         \* state of the purity analyzer run
    finder,      \* state of an AssertionFinder run on its own
    smt,         \* state of an SMTTranslator used on its own
    lsp          \* state of the language server: documents under verification

vars == <<pc, unit, todo, func, infos, pre, post, other, assumed, enc, acc,
          result, results, runs, wp, pur, finder, smt, lsp>>

\* the components that run on their own, outside the orchestrator
sideVars == <<finder, smt, lsp>>

orchVars == <<pc, unit, todo, func, infos, pre, post, other, assumed, enc, acc,
              result, results, runs>>

(***************************************************************************)
(* Bounds of the model.                                                    *)
(***************************************************************************)
\* solver models range over -MaxInt .. MaxInt
MaxInt == 2
\* number of verify_source calls made on one orchestrator
MaxRuns == 2
\* blank or comment lines that may separate two statements
MaxGap == 1

Dom == (0 - MaxInt) .. MaxInt

(***************************************************************************)
(* ast nodes.                                                              *)
(***************************************************************************)
Absent == [k |-> "Absent"]

Num(v) == [k |-> "Constant", ty |-> "int", value |-> v]
Str(v) == [k |-> "Constant", ty |-> "str", value |-> v]
NoneLit == [k |-> "Constant", ty |-> "none", value |-> 0]
Name(id) == [k |-> "Name", id |-> id, ctx |-> "Load"]
StoreName(id) == [k |-> "Name", id |-> id, ctx |-> "Store"]
BinOp(l, o, r) == [k |-> "BinOp", left |-> l, op |-> o, right |-> r]
Compare(l, os, cs) == [k |-> "Compare", left |-> l, ops |-> os, comparators |-> cs]
Cmp(l, o, r) == Compare(l, <<o>>, <<r>>)
BoolOp(o, vs) == [k |-> "BoolOp", op |-> o, values |-> vs]
UnaryOp(o, e) == [k |-> "UnaryOp", op |-> o, operand |-> e]
Call(f, as) == [k |-> "Call", func |-> f, args |-> as]
Attribute(v, a) == [k |-> "Attribute", value |-> v, attr |-> a]
Lambda(as, ds, b) == [k |-> "Lambda", args |-> as, defaults |-> ds, body |-> b]
JoinedStr(vs) == [k |-> "JoinedStr", values |-> vs]

AssertStmt(t, ln) == [k |-> "Assert", test |-> t, lineno |-> ln]
Assign(x, v, ln) == [k |-> "Assign", targets |-> <<StoreName(x)>>, value |-> v, lineno |-> ln]
AugAssign(x, o, v, ln) == [k |-> "AugAssign", target |-> StoreName(x), op |-> o, value |-> v, lineno |-> ln]
Return(v, ln) == [k |-> "Return", value |-> v, lineno |-> ln]
Expr(v, ln) == [k |-> "Expr", value |-> v, lineno |-> ln]
Pass(ln) == [k |-> "Pass", lineno |-> ln]
If(t, b, e, ln) == [k |-> "If", test |-> t, body |-> b, orelse |-> e, lineno |-> ln]
While(t, b, ln) == [k |-> "While", test |-> t, body |-> b, lineno |-> ln]
Arg(a, ann) == [arg |-> a, annotation |-> ann]
FunctionDef(n, as, b, ln, end) ==
    [k |-> "FunctionDef", name |-> n, args |-> as, body |-> b, lineno |-> ln, end_lineno |-> end]
Module(b) == [k |-> "Module", body |-> b]

StmtKinds == {"Assert", "Assign", "AugAssign", "Return", "Expr", "Pass", "If", "While",
              "FunctionDef"}

ExprKinds == {"Constant", "Name", "BinOp", "Compare", "BoolOp", "UnaryOp", "Call", "Attribute",
              "Lambda", "JoinedStr"}

(***************************************************************************)
(* Sequence helpers.                                                       *)
(***************************************************************************)
RECURSIVE Concat(_)
Concat(ss) == IF ss = <<>> THEN <<>> ELSE Head(ss) \o Concat(Tail(ss))

Range(s) == {s[i] : i \in 1 .. Len(s)}

\* position of the first element equal to x, 0 when there is none (list.index)
IndexOf(s, x) ==
    IF \E i \in 1 .. Len(s) : s[i] = x
    THEN CHOOSE i \in 1 .. Len(s) : s[i] = x /\ \A j \in 1 .. (i - 1) : s[j] # x
    ELSE 0

(***************************************************************************)
(* ast.walk: breadth-first order over the tree.                            *)
(***************************************************************************)
iter_child_nodes(n) ==
    CASE n.k = "Module" -> n.body
      [] n.k = "FunctionDef" -> n.body
      [] n.k = "Assert" -> <<n.test>>
      [] n.k = "Assign" -> n.targets \o <<n.value>>
      [] n.k = "AugAssign" -> <<n.target, n.value>>
      [] n.k = "Return" -> IF n.value = Absent THEN <<>> ELSE <<n.value>>
      [] n.k = "Expr" -> <<n.value>>
      [] n.k = "If" -> <<n.test>> \o n.body \o n.orelse
      [] n.k = "While" -> <<n.test>> \o n.body
      [] n.k = "BinOp" -> <<n.left, n.right>>
      [] n.k = "Compare" -> <<n.left>> \o n.comparators
      [] n.k = "BoolOp" -> n.values
      [] n.k = "UnaryOp" -> <<n.operand>>
      [] n.k = "Call" -> <<n.func>> \o n.args
      [] n.k = "Attribute" -> <<n.value>>
      [] n.k = "Lambda" -> n.defaults \o <<n.body>>
      [] n.k = "JoinedStr" -> n.values
      [] OTHER -> <<>>

RECURSIVE walk_level(_)
walk_level(nodes) ==
    IF nodes = <<>> THEN <<>>
    ELSE nodes \o walk_level(Concat([i \in 1 .. Len(nodes) |-> iter_child_nodes(nodes[i])]))

walk(n) == walk_level(<<n>>)

(***************************************************************************)
(* ast/parser.py: ASTTraverser.                                            *)
(***************************************************************************)
IsFunctionDef(n) == n.k = "FunctionDef"
IsAssertNode(n) == n.k = "Assert"
IsLoop(n) == n.k \in {"For", "While"}

find_functions(tree) == SelectSeq(walk(tree), IsFunctionDef)

find_assertions(tree) == SelectSeq(walk(tree), IsAssertNode)

\* the Module node has no entry in the source map
node_contains(container, contained) ==
    /\ container.k \in StmtKinds
    /\ contained.k \in StmtKinds
    /\ LET container_end == IF container.k = "FunctionDef" THEN container.end_lineno
                            ELSE container.lineno
       IN  container.lineno <= contained.lineno /\ contained.lineno <= container_end

get_function_containing_node(tree, node) ==
    LET functions == find_functions(tree)
        hits == {i \in 1 .. Len(functions) : node_contains(functions[i], node)}
    IN  IF hits = {} THEN Absent
        ELSE functions[CHOOSE i \in hits : \A j \in hits : i <= j]

\* ASTTraverser.get_statements_before_node: the statements of the body of the
\* containing function that start on a line above the line of the target
before_target(body, target_line) ==
    LET starts_above(stmt) == stmt.lineno < target_line
    IN  SelectSeq(body, starts_above)

get_statements_before_node(tree, target_node) ==
    LET containing_func == get_function_containing_node(tree, target_node)
    IN  IF containing_func = Absent THEN <<>>
        ELSE before_target(containing_func.body, target_node.lineno)

(***************************************************************************)
(* ast/assertion_finder.py: AssertionFinder.                               *)
(***************************************************************************)
is_at_function_start(assert_node, fn) ==
    LET assert_index == IndexOf(fn.body, assert_node)
    IN  /\ fn.body # <<>>
        /\ assert_index # 0
        /\ \A i \in 1 .. (assert_index - 1) :
              LET stmt == fn.body[i]
              IN  \/ (stmt.k = "Expr" /\ stmt.value.k = "Constant")
                  \/ stmt.k = "Assert"

RECURSIVE found_return_from(_, _)
found_return_from(body, i) ==
    IF i > Len(body) THEN FALSE
    ELSE IF body[i].k = "Return" THEN TRUE
    ELSE IF body[i].k = "Assert" THEN found_return_from(body, i + 1)
    ELSE FALSE

is_before_return(assert_node, fn) ==
    LET assert_index == IndexOf(fn.body, assert_node)
    IN  /\ fn.body # <<>>
        /\ assert_index # 0
        /\ found_return_from(fn.body, assert_index + 1)

is_at_loop_start(assert_node, loop) ==
    /\ IsLoop(loop)
    /\ loop.body # <<>>
    /\ loop.body[1] = assert_node

expression_involves_params(expr, params) ==
    \E n \in Range(walk(expr)) : n.k = "Name" /\ n.id \in params

is_termination_measure(assert_node, fn) ==
    /\ assert_node.test.k = "Compare"
    /\ expression_involves_params(assert_node.test, {fn.args[i].arg : i \in 1 .. Len(fn.args)})
    /\ \E i \in 1 .. Len(assert_node.test.ops) :
          assert_node.test.ops[i] \in {"Lt", "LtE", "Gt", "GtE"}

node_is_descendant(node, ancestor) == node \in Range(walk(ancestor))

node_in_loop_body(node, loop) ==
    /\ IsLoop(loop)
    /\ \E i \in 1 .. Len(loop.body) :
          loop.body[i] = node \/ node_is_descendant(node, loop.body[i])

get_containing_loop(tree, node) ==
    LET all == walk(tree)
        hits == {i \in 1 .. Len(all) : IsLoop(all[i]) /\ node_in_loop_body(node, all[i])}
    IN  IF hits = {} THEN Absent
        ELSE all[CHOOSE i \in hits : \A j \in hits : i <= j]

\* the rules with the postcondition rule tried before the precondition rule
classify_assertion_post_first(assert_node, containing_function, containing_loop) ==
    IF containing_function = Absent THEN "general"
    ELSE IF is_before_return(assert_node, containing_function) THEN "postcondition"
    ELSE IF is_at_function_start(assert_node, containing_function) THEN "precondition"
    ELSE IF containing_loop # Absent /\ is_at_loop_start(assert_node, containing_loop)
         THEN "loop_invariant"
    ELSE IF is_termination_measure(assert_node, containing_function) THEN "termination"
    ELSE "general"

classify_assertion(assert_node, containing_function, containing_loop) ==
    IF containing_function = Absent THEN "general"
    ELSE IF is_at_function_start(assert_node, containing_function) THEN "precondition"
    ELSE IF is_before_return(assert_node, containing_function) THEN "postcondition"
    ELSE IF containing_loop # Absent /\ is_at_loop_start(assert_node, containing_loop)
         THEN "loop_invariant"
    ELSE IF is_termination_measure(assert_node, containing_function) THEN "termination"
    ELSE "general"

analyze_assertion(tree, assert_node) ==
    LET containing_function == get_function_containing_node(tree, assert_node)
        containing_loop == get_containing_loop(tree, assert_node)
    IN  [node |-> assert_node,
         line |-> assert_node.lineno,
         assertion_type |-> classify_assertion(assert_node, containing_function, containing_loop),
         containing_function |-> containing_function,
         containing_loop |-> containing_loop]

find_all_assertions(tree) ==
    LET assert_nodes == find_assertions(tree)
    IN  [i \in 1 .. Len(assert_nodes) |-> analyze_assertion(tree, assert_nodes[i])]

(***************************************************************************)
(* Finite maps (Python dicts).                                             *)
(***************************************************************************)
EmptyMap == [x \in {} |-> 0]

Put(f, key, v) == [x \in (DOMAIN f) \cup {key} |-> IF x = key THEN v ELSE f[x]]

Get(f, key, default) == IF key \in DOMAIN f THEN f[key] ELSE default

(***************************************************************************)
(* logic/smt_translator.py: the type environment.  NoType stands for       *)
(* Python's None where a VariableType is optional.                         *)
(***************************************************************************)
NoType == "NoType"

extract_type_from_annotation(annotation) ==
    CASE annotation = "int" -> "int"
      [] annotation = "float" -> "real"
      [] annotation = "bool" -> "bool"
      [] annotation = "str" -> "string"
      [] annotation = "list" -> "list"
      [] OTHER -> NoType

infer_type_from_annotation(annotation) ==
    CASE annotation = "int" -> "int"
      [] annotation = "float" -> "real"
      [] annotation = "bool" -> "bool"
      [] annotation = "str" -> "string"
      [] OTHER -> "int"

make_optional_type(base_type) ==
    CASE base_type = "int" -> "optional_int"
      [] base_type = "real" -> "optional_real"
      [] base_type = "bool" -> "optional_bool"
      [] base_type = "string" -> "optional_string"
      [] OTHER -> "optional_int"

infer_type_from_literal(node) ==
    CASE node.ty = "bool" -> "bool"
      [] node.ty = "int" -> "int"
      [] node.ty = "float" -> "real"
      [] node.ty = "str" -> "string"
      [] OTHER -> NoType

IsNoneLit(n) == n.k = "Constant" /\ n.ty = "none"

IsNoneComparison(n) ==
    /\ n.k = "Compare"
    /\ \E i \in 1 .. Len(n.ops) : n.ops[i] \in {"Is", "IsNot"} /\ IsNoneLit(n.comparators[i])

NamesOf(nodes) == {n.id : n \in {m \in nodes : m.k = "Name"}}

detect_none_usage(func_def) ==
    LET all == Range(walk(func_def))
    IN  NamesOf({n.left : n \in {m \in all : IsNoneComparison(m)}})
        \cup UNION {NamesOf(Range(n.targets)) :
                      n \in {m \in all : m.k = "Assign" /\ IsNoneLit(m.value)}}

detect_regular_usage(func_def) ==
    LET all == Range(walk(func_def))
    IN  UNION {NamesOf({n.left, n.right}) : n \in {m \in all : m.k = "BinOp"}}
        \cup UNION {NamesOf({n.left} \cup Range(n.comparators)) :
                      n \in {m \in all : m.k = "Compare" /\ ~IsNoneComparison(m)}}

RECURSIVE infer_expression_type(_, _)
infer_expression_type(expr, hints) ==
    CASE expr.k = "Constant" -> infer_type_from_literal(expr)
      [] expr.k = "Name" -> Get(hints, expr.id, NoType)
      [] expr.k = "BinOp" ->
            LET left_type == infer_expression_type(expr.left, hints)
                right_type == infer_expression_type(expr.right, hints)
            IN  IF expr.op \in {"Add", "Sub", "Mult", "Pow", "Mod"}
                THEN (IF left_type = "real" \/ right_type = "real" THEN "real"
                      ELSE IF left_type = "int" /\ right_type = "int" THEN "int"
                      ELSE NoType)
                ELSE IF expr.op = "Div" THEN "real"
                ELSE IF expr.op = "FloorDiv"
                THEN (IF left_type = "int" /\ right_type = "int" THEN "int" ELSE "real")
                ELSE NoType
      [] expr.k = "UnaryOp" ->
            LET operand_type == infer_expression_type(expr.operand, hints)
            IN  IF expr.op \in {"UAdd", "USub"}
                THEN (IF operand_type \in {"int", "real"} THEN operand_type ELSE NoType)
                ELSE IF expr.op = "Not" THEN "bool"
                ELSE NoType
      [] expr.k = "Call" ->
            IF expr.func.k # "Name" THEN NoType
            ELSE LET arg_type == IF expr.args = <<>> THEN NoType
                                 ELSE infer_expression_type(expr.args[1], hints)
                 IN  (CASE expr.func.id = "abs" ->
                               IF arg_type \in {"int", "real"} THEN arg_type ELSE "int"
                        [] expr.func.id = "int" -> "int"
                        [] expr.func.id = "float" -> "real"
                        [] expr.func.id = "bool" -> "bool"
                        [] expr.func.id = "str" -> "string"
                        [] expr.func.id = "len" -> "int"
                        [] expr.func.id \in {"min", "max"} -> arg_type
                        [] OTHER -> NoType)
      [] OTHER -> NoType

RECURSIVE infer_types_from_comparison(_, _, _, _, _)
infer_types_from_comparison(compare, i, hints, left_type, none_vars) ==
    IF i > Len(compare.ops) THEN hints
    ELSE LET comparator == compare.comparators[i]
             comp_type == infer_expression_type(comparator, hints)
             left == compare.left
             h1 == IF left.k = "Name" /\ left.id \notin DOMAIN hints
                   THEN (IF comp_type \in {"int", "real", "string", "bool"}
                         THEN Put(hints, left.id, comp_type)
                         ELSE IF comparator.k = "Constant" /\ comparator.ty \in {"int", "float"}
                         THEN LET inferred_type == IF comparator.ty = "int" THEN "int" ELSE "real"
                              IN  Put(hints, left.id,
                                      IF left.id \in none_vars
                                      THEN make_optional_type(inferred_type)
                                      ELSE inferred_type)
                         ELSE IF comparator.k = "Constant" /\ comparator.ty = "str"
                         THEN Put(hints, left.id, "string")
                         ELSE hints)
                   ELSE hints
             h2 == IF comparator.k = "Name" /\ comparator.id \notin DOMAIN h1
                   THEN (IF left_type \in {"int", "real", "string", "bool"}
                         THEN Put(h1, comparator.id, left_type)
                         ELSE IF left.k = "Constant" /\ left.ty \in {"int", "float"}
                         THEN Put(h1, comparator.id, IF left.ty = "int" THEN "int" ELSE "real")
                         ELSE IF left.k = "Constant" /\ left.ty = "str"
                         THEN Put(h1, comparator.id, "string")
                         ELSE h1)
                   ELSE h1
         IN  infer_types_from_comparison(compare, i + 1, h2, left_type, none_vars)

extract_isinstance_type(type_expr) ==
    IF type_expr.k = "Name" THEN extract_type_from_annotation(type_expr.id) ELSE NoType

infer_from_isinstance_call(call, hints) ==
    IF Len(call.args) >= 2 /\ call.args[1].k = "Name"
       /\ extract_isinstance_type(call.args[2]) # NoType
       /\ call.args[1].id \notin DOMAIN hints
    THEN Put(hints, call.args[1].id, extract_isinstance_type(call.args[2]))
    ELSE hints

\* step 4 of _infer_types_from_function: one pass over ast.walk(func_def)
RECURSIVE infer_walk(_, _, _, _)
infer_walk(nodes, i, hints, none_vars) ==
    IF i > Len(nodes) THEN hints
    ELSE LET node == nodes[i]
             h == CASE node.k = "Assign" ->
                          LET value_type == infer_expression_type(node.value, hints)
                              target == node.targets[1]
                          IN  IF value_type # NoType /\ target.k = "Name"
                                 /\ target.id \notin DOMAIN hints
                              THEN Put(hints, target.id,
                                       IF target.id \in none_vars
                                       THEN make_optional_type(value_type)
                                       ELSE value_type)
                              ELSE hints
                    [] node.k = "Compare" ->
                          infer_types_from_comparison(node, 1, hints,
                              infer_expression_type(node.left, hints), none_vars)
                    [] node.k = "Call" ->
                          IF node.func.k = "Name" /\ node.func.id = "isinstance"
                          THEN infer_from_isinstance_call(node, hints)
                          ELSE hints
                    [] OTHER -> hints
         IN  infer_walk(nodes, i + 1, h, none_vars)

RECURSIVE put_all(_, _, _)
put_all(hints, names, ty) ==
    IF names = {} THEN hints
    ELSE LET n == CHOOSE x \in names : TRUE
         IN  put_all(IF n \in DOMAIN hints THEN hints ELSE Put(hints, n, ty), names \ {n}, ty)

infer_types_from_function(func_def, hints) ==
    LET smart_none_vars == detect_none_usage(func_def) \ detect_regular_usage(func_def)
    IN  put_all(infer_walk(walk(func_def), 1, hints, smart_none_vars),
                smart_none_vars, "optional_int")

RECURSIVE annotation_hints(_, _, _)
annotation_hints(args, i, hints) ==
    IF i > Len(args) THEN hints
    ELSE annotation_hints(args, i + 1,
            IF extract_type_from_annotation(args[i].annotation) # NoType
            THEN Put(hints, args[i].arg, extract_type_from_annotation(args[i].annotation))
            ELSE hints)

add_type_hints_from_function(e, func_def) ==
    [e EXCEPT !.type_hints =
        infer_types_from_function(func_def, annotation_hints(func_def.args, 1, e.type_hints))]

(***************************************************************************)
(* logic/smt_translator.py: the encoder.  A Z3 constant is identified by   *)
(* its unique name <<python name, counter>> and its sort; the solver is    *)
(* the list of asserted terms plus the stack of push() marks.              *)
(***************************************************************************)
NoErr == "ok"

\* reached only by constructs whose translation is not modelled: evaluating it stops TLC
Unmodelled == CHOOSE x \in {} : TRUE

NewTranslator ==
    [variables |-> EmptyMap, type_hints |-> EmptyMap, assertions |-> <<>>,
     scopes |-> <<>>, var_counter |-> 0]

\* a reset that clears the variable tables and keeps the solver's assertions
reset_keeping_solver(e) == [NewTranslator EXCEPT !.assertions = e.assertions]

reset(e) == NewTranslator

SortOfType(var_type) ==
    CASE var_type = "int" -> "Int"
      [] var_type = "real" -> "Real"
      [] var_type = "bool" -> "Bool"
      [] var_type = "string" -> "String"
      [] var_type = "optional_int" -> "OptionInt"
      [] var_type = "optional_real" -> "OptionReal"
      [] var_type = "optional_bool" -> "OptionBool"
      [] var_type = "optional_string" -> "OptionString"

IntVal(v) == [t |-> "IntVal", v |-> v, sort |-> "Int"]
BoolVal(b) == [t |-> "BoolVal", v |-> IF b THEN 1 ELSE 0, sort |-> "Bool"]
StringVal(v) == [t |-> "StringVal", v |-> v, sort |-> "String"]
RealVal(v) == [t |-> "RealVal", v |-> v, sort |-> "Real"]
PyNone == [t |-> "PyNone", sort |-> "PyNone"]
Const(uname, srt) == [t |-> "Const", name |-> uname, sort |-> srt]
Arith(o, l, r) == [t |-> "Arith", op |-> o, l |-> l, r |-> r, sort |-> "Int"]
Rel(o, l, r) == [t |-> "Rel", op |-> o, l |-> l, r |-> r, sort |-> "Bool"]
Neg(a) == [t |-> "Neg", a |-> a, sort |-> "Int"]
NotT(a) == [t |-> "Not", a |-> a, sort |-> "Bool"]
AndT(as) == [t |-> "And", args |-> as, sort |-> "Bool"]
OrT(as) == [t |-> "Or", args |-> as, sort |-> "Bool"]

Ret(e, term, err) == [enc |-> e, term |-> term, err |-> err]

get_or_create_variable(e, name, given_type) ==
    IF name \in DOMAIN e.variables THEN Ret(e, e.variables[name], NoErr)
    ELSE LET var_type == IF given_type = NoType THEN Get(e.type_hints, name, "unknown")
                         ELSE given_type
         IN  IF var_type = "unknown" THEN Ret(e, PyNone, "TypeInferenceError")
             ELSE IF var_type = "list" THEN Ret(e, PyNone, "UnsupportedConstructError")
             ELSE LET z3_variable == [name |-> <<name, e.var_counter>>,
                                      var_type |-> var_type,
                                      z3_var |-> Const(<<name, e.var_counter>>,
                                                       SortOfType(var_type))]
                  IN  Ret([e EXCEPT !.variables = Put(@, name, z3_variable),
                                    !.var_counter = @ + 1],
                          z3_variable, NoErr)

add_constraint(e, constraint) == [e EXCEPT !.assertions = Append(@, constraint)]

IsArith(term) == term.sort \in {"Int", "Real"}

\* operand sorts Z3's Python operators accept for +, -, * and the order
\* relations: an arithmetic term on one side, Bool coerced to Int on the other
ArithOperands(l, r) ==
    /\ {l.sort, r.sort} \subseteq {"Int", "Real", "Bool"}
    /\ IsArith(l) \/ IsArith(r)

RelTerm(op, l, r) ==
    IF op \in {"Eq", "NotEq"}
    THEN (IF l.sort = "PyNone" \/ r.sort = "PyNone" THEN Unmodelled
          ELSE IF l.sort = r.sort \/ ArithOperands(l, r)
          THEN Ret(EmptyMap, Rel(op, l, r), NoErr)
          ELSE Ret(EmptyMap, PyNone, "Z3Exception"))
    ELSE IF op \in {"Lt", "LtE", "Gt", "GtE"}
    THEN (IF ArithOperands(l, r) THEN Ret(EmptyMap, Rel(op, l, r), NoErr)
          ELSE Ret(EmptyMap, PyNone, "TypeError"))
    ELSE Ret(EmptyMap, PyNone, "UnsupportedConstructError")

RECURSIVE translate_expr(_, _)
RECURSIVE translate_list(_, _, _, _)
RECURSIVE translate_chain(_, _, _, _, _)

\* [self._translate_expr(v) for v in exprs]
translate_list(e, exprs, i, done) ==
    IF i > Len(exprs) THEN [enc |-> e, terms |-> done, err |-> NoErr]
    ELSE LET r == translate_expr(e, exprs[i])
         IN  IF r.err # NoErr THEN [enc |-> r.enc, terms |-> done, err |-> r.err]
             ELSE translate_list(r.enc, exprs, i + 1, Append(done, r.term))

\* the loop over zip(expr.ops, expr.comparators); first is TRUE while result is left
translate_chain(e, compare, i, res, first) ==
    IF i > Len(compare.ops) THEN Ret(e, res, NoErr)
    ELSE LET r == translate_expr(e, compare.comparators[i])
         IN  IF r.err # NoErr THEN r
             ELSE LET c == RelTerm(compare.ops[i], res, r.term)
                  IN  IF c.err # NoErr THEN Ret(r.enc, PyNone, c.err)
                      ELSE translate_chain(r.enc, compare, i + 1,
                               IF first THEN c.term ELSE AndT(<<res, c.term>>), FALSE)

translate_expr(e, expr) ==
    CASE expr.k = "Constant" ->
            Ret(e, CASE expr.ty = "bool" -> BoolVal(expr.value = 1)
                     [] expr.ty = "int" -> IntVal(expr.value)
                     [] expr.ty = "float" -> RealVal(expr.value)
                     [] expr.ty = "str" -> StringVal(expr.value)
                     [] expr.ty = "none" -> PyNone, NoErr)
      [] expr.k = "Name" ->
            IF expr.ctx = "Load"
            THEN LET r == get_or_create_variable(e, expr.id, NoType)
                 IN  Ret(r.enc, IF r.err = NoErr THEN r.term.z3_var ELSE PyNone, r.err)
            ELSE Ret(e, PyNone, "UnsupportedConstructError")
      [] expr.k = "BinOp" ->
            LET l == translate_expr(e, expr.left)
                r == translate_expr(l.enc, expr.right)
            IN  IF l.err # NoErr THEN l
                ELSE IF r.err # NoErr THEN r
                ELSE IF expr.op \in {"Add", "Sub", "Mult"}
                THEN (IF ArithOperands(l.term, r.term)
                      THEN Ret(r.enc, Arith(expr.op, l.term, r.term), NoErr)
                      ELSE Ret(r.enc, PyNone, "TypeError"))
                ELSE IF expr.op \in {"Div", "Mod", "Pow"} THEN Unmodelled
                ELSE Ret(r.enc, PyNone, "UnsupportedConstructError")
      [] expr.k = "Compare" ->
            IF Len(expr.ops) = 1 /\ expr.ops[1] \in {"Is", "IsNot", "In", "NotIn"}
            THEN Unmodelled
            ELSE LET l == translate_expr(e, expr.left)
                 IN  IF l.err # NoErr THEN l
                     ELSE translate_chain(l.enc, expr, 1, l.term, TRUE)
      [] expr.k = "BoolOp" ->
            LET vs == translate_list(e, expr.values, 1, <<>>)
            IN  IF vs.err # NoErr THEN Ret(vs.enc, PyNone, vs.err)
                ELSE IF \E i \in 1 .. Len(vs.terms) : vs.terms[i].sort # "Bool"
                THEN Ret(vs.enc, PyNone, "Z3Exception")
                ELSE Ret(vs.enc, IF expr.op = "And" THEN AndT(vs.terms) ELSE OrT(vs.terms),
                         NoErr)
      [] expr.k = "UnaryOp" ->
            LET o == translate_expr(e, expr.operand)
            IN  IF o.err # NoErr THEN o
                ELSE (CASE expr.op = "UAdd" -> o
                        [] expr.op = "USub" ->
                             IF IsArith(o.term) THEN Ret(o.enc, Neg(o.term), NoErr)
                             ELSE Ret(o.enc, PyNone, "TypeError")
                        [] expr.op = "Not" ->
                             IF o.term.sort = "Bool" THEN Ret(o.enc, NotT(o.term), NoErr)
                             ELSE Ret(o.enc, PyNone, "Z3Exception")
                        [] OTHER -> Ret(o.enc, PyNone, "UnsupportedConstructError"))
      [] expr.k = "Call" ->
            IF expr.func.k = "Name" /\ expr.func.id = "isinstance"
            THEN (IF Len(expr.args) >= 2 /\ expr.args[1].k = "Name"
                     /\ extract_isinstance_type(expr.args[2]) # NoType
                     /\ expr.args[1].id \in DOMAIN e.variables
                  THEN Ret(e, BoolVal(e.variables[expr.args[1].id].var_type
                                        = extract_isinstance_type(expr.args[2])), NoErr)
                  ELSE Ret(e, BoolVal(TRUE), NoErr))
            ELSE Unmodelled
      [] OTHER -> Ret(e, PyNone, "UnsupportedConstructError")

translate_expression(e, expr) == translate_expr(e, expr)

translate_assertion(e, assert_node) == translate_expression(e, assert_node.test)

(***************************************************************************)
(* The solver.  Satisfiability is decided over models that give every      *)
(* integer constant a value of Dom; Z3 may return any model, so a check    *)
(* yields the set of models it can return.  Booleans are 1 and 0 (the      *)
(* coercion Z3 applies to a Bool operand of an arithmetic relation).       *)
(***************************************************************************)
RECURSIVE TermConsts(_)
TermConsts(term) ==
    CASE term.t = "Const" -> {term}
      [] term.t \in {"Arith", "Rel"} -> TermConsts(term.l) \cup TermConsts(term.r)
      [] term.t \in {"Neg", "Not"} -> TermConsts(term.a)
      [] term.t \in {"And", "Or"} ->
            UNION {TermConsts(term.args[i]) : i \in 1 .. Len(term.args)}
      [] OTHER -> {}

B2I(b) == IF b THEN 1 ELSE 0

RECURSIVE EvalTerm(_, _)
EvalTerm(term, m) ==
    CASE term.t \in {"IntVal", "BoolVal"} -> term.v
      [] term.t = "Const" -> m[term.name]
      [] term.t = "Arith" ->
            LET a == EvalTerm(term.l, m)
                b == EvalTerm(term.r, m)
            IN  (CASE term.op = "Add" -> a + b
                   [] term.op = "Sub" -> a - b
                   [] term.op = "Mult" -> a * b)
      [] term.t = "Rel" ->
            LET a == EvalTerm(term.l, m)
                b == EvalTerm(term.r, m)
            IN  (CASE term.op = "Eq" -> B2I(a = b)
                   [] term.op = "NotEq" -> B2I(a # b)
                   [] term.op = "Lt" -> B2I(a < b)
                   [] term.op = "LtE" -> B2I(a <= b)
                   [] term.op = "Gt" -> B2I(a > b)
                   [] term.op = "GtE" -> B2I(a >= b))
      [] term.t = "Neg" -> 0 - EvalTerm(term.a, m)
      [] term.t = "Not" -> 1 - EvalTerm(term.a, m)
      [] term.t = "And" -> B2I(\A i \in 1 .. Len(term.args) : EvalTerm(term.args[i], m) = 1)
      [] term.t = "Or" -> B2I(\E i \in 1 .. Len(term.args) : EvalTerm(term.args[i], m) = 1)

\* the models solver.check() can come back with for the asserted terms
SolverModels(assertions) ==
    LET consts == UNION {TermConsts(assertions[i]) : i \in 1 .. Len(assertions)}
        names == {c.name : c \in consts}
        SortOf(n) == (CHOOSE c \in consts : c.name = n).sort
    IN  {m \in [names -> Dom] :
            /\ \A n \in names :
                  (CASE SortOf(n) = "Int" -> TRUE
                     [] SortOf(n) = "Bool" -> m[n] \in {0, 1})
            /\ \A i \in 1 .. Len(assertions) : EvalTerm(assertions[i], m) = 1}

push(e) == [e EXCEPT !.scopes = Append(@, Len(e.assertions))]

\* a pop that forgets the mark and keeps what was asserted above it
pop_keeping_constraints(e) == [e EXCEPT !.scopes = SubSeq(@, 1, Len(e.scopes) - 1)]

pop(e) == [e EXCEPT !.assertions = SubSeq(@, 1, e.scopes[Len(e.scopes)]),
                    !.scopes = SubSeq(@, 1, Len(e.scopes) - 1)]

\* model_dict: the Python names whose Z3 constant the model interprets
model_dict(e, m) ==
    [n \in {x \in DOMAIN e.variables : e.variables[x].name \in DOMAIN m}
        |-> m[e.variables[n].name]]

\* a search that looks for a falsifying model without the asserted constraints
find_counterexample_unconstrained(e, assertion) ==
    LET models == SolverModels(<<NotT(assertion)>>)
    IN  IF models = {}
        THEN {[enc |-> e, has |-> FALSE, model |-> EmptyMap, err |-> NoErr]}
        ELSE {[enc |-> e, has |-> TRUE, model |-> model_dict(e, m), err |-> NoErr]
                : m \in models}

\* the outcomes of find_counterexample(assertion): the encoder afterwards,
\* has_counterexample, the counterexample and the exception raised, if any
find_counterexample(e, assertion) ==
    LET pushed == push(e)
    IN  IF assertion.sort # "Bool"
        THEN {[enc |-> pop(pushed), has |-> FALSE, model |-> EmptyMap, err |-> "Z3Exception"]}
        ELSE LET added == add_constraint(pushed, NotT(assertion))
                 models == SolverModels(added.assertions)
             IN  IF models = {}
                 THEN {[enc |-> pop(added), has |-> FALSE, model |-> EmptyMap, err |-> NoErr]}
                 ELSE {[enc |-> pop(added), has |-> TRUE, model |-> model_dict(added, m),
                        err |-> NoErr] : m \in models}

get_solver_assertions(e) == e.assertions

(***************************************************************************)
(* verification/orchestrator.py: helpers of verify_function.               *)
(***************************************************************************)
NewResult(function_node) ==
    [function_name |-> function_node.name, success |-> FALSE,
     verified_assertions |-> <<>>, failed_assertions |-> <<>>,
     counterexamples |-> <<>>, errors |-> <<>>]

\* f"{assertion_type.value}: {ast.unparse(node.test)}": the text keeps the role
\* and the expression and drops the position of the assertion
assertion_desc(info) == [type |-> info.assertion_type, test |-> info.node.test]

function_assertions_of(tree, function_node) ==
    LET Owned(a) == a.containing_function = function_node
    IN  SelectSeq(find_all_assertions(tree), Owned)

\* sorted(..., key=line): stable insertion sort
RECURSIVE insert_by_line(_, _)
insert_by_line(sorted, a) ==
    IF sorted = <<>> THEN <<a>>
    ELSE IF a.line < Head(sorted).line THEN <<a>> \o sorted
    ELSE <<Head(sorted)>> \o insert_by_line(Tail(sorted), a)

RECURSIVE sort_by_line(_, _, _)
sort_by_line(s, i, done) ==
    IF i > Len(s) THEN done ELSE sort_by_line(s, i + 1, insert_by_line(done, s[i]))

\* program constants of _classify_and_group_assertions
NearStartLines == 10
ConsecutiveLines == 2

RECURSIVE consecutive_start(_, _, _, _)
consecutive_start(sorted, i, start_line, group) ==
    IF i > Len(sorted) THEN group
    ELSE LET is_near_start == sorted[i].line - start_line <= NearStartLines
         IN  IF is_near_start
                /\ (group = <<>> \/ sorted[i].line - group[Len(group)].line <= ConsecutiveLines)
             THEN consecutive_start(sorted, i + 1, start_line, Append(group, sorted[i]))
             ELSE group

RECURSIVE classify_remaining(_, _, _)
classify_remaining(remaining, i, lists) ==
    IF i > Len(remaining) THEN lists
    ELSE LET a == remaining[i]
             InPre == a \in Range(lists.preconditions)
         IN  classify_remaining(remaining, i + 1,
               IF a.assertion_type = "postcondition"
               THEN [lists EXCEPT !.postconditions = Append(@, a)]
               ELSE IF a.assertion_type = "precondition"
               THEN (IF InPre THEN lists ELSE [lists EXCEPT !.preconditions = Append(@, a)])
               ELSE (IF InPre THEN lists ELSE [lists EXCEPT !.other_assertions = Append(@, a)]))

classify_and_group_assertions(function_assertions, function_node) ==
    LET sorted_assertions == sort_by_line(function_assertions, 1, <<>>)
        consecutive_start_assertions ==
            consecutive_start(sorted_assertions, 1, function_node.lineno, <<>>)
    IN  classify_remaining(
            SubSeq(sorted_assertions, Len(consecutive_start_assertions) + 1,
                   Len(sorted_assertions)),
            1,
            [preconditions |-> consecutive_start_assertions,
             postconditions |-> <<>>, other_assertions |-> <<>>])

\* step 4 of verify_function: the lists the later steps iterate over
IsPostcondition(a) == a.assertion_type = "postcondition"
IsOtherAssertion(a) == a.assertion_type \notin {"precondition", "postcondition"}

verification_lists(function_assertions, function_node) ==
    [preconditions |->
        classify_and_group_assertions(function_assertions, function_node).preconditions,
     postconditions |-> SelectSeq(function_assertions, IsPostcondition),
     other_assertions |-> SelectSeq(function_assertions, IsOtherAssertion)]

\* for arg in function_node.args.args: get_or_create_variable(arg.arg, var_type)
RECURSIVE declare_parameters(_, _, _)
declare_parameters(e, args, i) ==
    IF i > Len(args) THEN e
    ELSE declare_parameters(
            get_or_create_variable(e, args[i].arg,
                IF args[i].annotation # "" THEN infer_type_from_annotation(args[i].annotation)
                ELSE "int").enc,
            args, i + 1)

setup_translator(e, function_node) ==
    declare_parameters(add_type_hints_from_function(reset(e), function_node),
                       function_node.args, 1)

\* _add_assignment_constraints: an exception of get_or_create_variable for the
\* target leaves the loop (the caller catches it), one raised while the value is
\* translated or compared skips that assignment only
RECURSIVE add_assignment_constraints(_, _, _)
add_assignment_constraints(e, nodes, i) ==
    IF i > Len(nodes) THEN e
    ELSE LET node == nodes[i]
         IN  IF node.k = "Assign" /\ Len(node.targets) = 1 /\ node.targets[1].k = "Name"
             THEN LET target_var == get_or_create_variable(e, node.targets[1].id, NoType)
                      value_expr == translate_expression(target_var.enc, node.value)
                      constraint == RelTerm("Eq", target_var.term.z3_var, value_expr.term)
                  IN  IF target_var.err # NoErr THEN e
                      ELSE IF value_expr.err # NoErr \/ constraint.err # NoErr
                      THEN add_assignment_constraints(value_expr.enc, nodes, i + 1)
                      ELSE add_assignment_constraints(
                               add_constraint(value_expr.enc, constraint.term), nodes, i + 1)
             ELSE add_assignment_constraints(e, nodes, i + 1)

\* _accumulate_constraints_from_current_context
accumulate_constraints(accumulated, e, function_name) ==
    accumulated \o [i \in 1 .. Len(get_solver_assertions(e)) |->
                      [function |-> function_name, constraint |-> get_solver_assertions(e)[i]]]

\* step 5: translate each precondition, add it to the solver and report it verified
RECURSIVE add_preconditions(_, _, _)
add_preconditions(st, preconditions, i) ==
    IF i > Len(preconditions) THEN st
    ELSE LET info == preconditions[i]
             r == translate_assertion(st.enc, info.node)
         IN  add_preconditions(
               IF r.err = NoErr /\ r.term.sort = "Bool"
               THEN [enc |-> add_constraint(r.enc, r.term),
                     result |-> [st.result EXCEPT
                                   !.verified_assertions = Append(@, assertion_desc(info))],
                     assumed |-> Append(st.assumed, info)]
               ELSE [st EXCEPT !.enc = r.enc,
                               !.result.errors = Append(@,
                                   [step |-> "precondition",
                                    error |-> IF r.err = NoErr THEN "Z3Exception" ELSE r.err])],
               preconditions, i + 1)

record_counterexample(res, info, outcome) ==
    IF ~outcome.has
    THEN [res EXCEPT !.verified_assertions = Append(@, assertion_desc(info))]
    ELSE [res EXCEPT !.failed_assertions = Append(@, assertion_desc(info)),
                     !.counterexamples =
                        IF DOMAIN outcome.model # {}
                        THEN Append(@, [assertion |-> assertion_desc(info),
                                        counterexample |-> outcome.model])
                        ELSE @]

\* a loop body without the try: an assertion that raises is listed as failed
check_assertion_unguarded(e, res, info, step) ==
    LET r == translate_assertion(e, info.node)
    IN  IF r.err # NoErr
        THEN {[enc |-> r.enc,
               result |-> [res EXCEPT !.failed_assertions = Append(@, assertion_desc(info))]]}
        ELSE {[enc |-> o.enc,
               result |-> IF o.err # NoErr
                          THEN [res EXCEPT !.failed_assertions =
                                   Append(@, assertion_desc(info))]
                          ELSE record_counterexample(res, info, o)]
                : o \in find_counterexample(r.enc, r.term)}

\* steps 6 and 7, one assertion: the encoder and the result after each outcome
\* of the counterexample search
check_assertion(e, res, info, step) ==
    LET r == translate_assertion(e, info.node)
    IN  IF r.err # NoErr
        THEN {[enc |-> r.enc,
               result |-> [res EXCEPT !.errors = Append(@, [step |-> step, error |-> r.err])]]}
        ELSE {[enc |-> o.enc,
               result |-> IF o.err # NoErr
                          THEN [res EXCEPT !.errors =
                                   Append(@, [step |-> step, error |-> o.err])]
                          ELSE record_counterexample(res, info, o)]
                : o \in find_counterexample(r.enc, r.term)}

\* the early return without the assignment to result.success
no_assertions_result_unset(res) == res

\* if not function_assertions: result.success = True; return result
no_assertions_result(res) == [res EXCEPT !.success = TRUE]

\* success computed from the failed assertions alone
final_result_ignoring_errors(res) ==
    [res EXCEPT !.success = (Len(res.failed_assertions) = 0)]

final_result(res) ==
    [res EXCEPT !.success = (Len(res.errors) = 0 /\ Len(res.failed_assertions) = 0)]

(***************************************************************************)
(* Source units the orchestrator is run on.  A function is written from    *)
(* the line of its def, so that the same definition can stand alone or     *)
(* next to a sibling.  g0 counts the lines (blank, comment, docstring      *)
(* text) between the def and the first statement, g1 those between the     *)
(* assignment and the assertion after it.                                  *)
(***************************************************************************)
IntArg(a) == Arg(a, "int")

\* def f(x: int): assert x >= 0; return x                       (Scenario A)
ScenarioA(ln) ==
    FunctionDef("only_pre", <<IntArg("x")>>,
                <<AssertStmt(Cmp(Name("x"), "GtE", Num(0)), ln + 1),
                  Return(Name("x"), ln + 2)>>, ln, ln + 2)

\* def f(): pass                                                (Scenario B)
ScenarioB(ln) == FunctionDef("no_asserts", <<>>, <<Pass(ln + 1)>>, ln, ln + 1)

\* def f(x: int): assert x >= 0; result = x + 1; assert result > x + 10;
\* return result                                                (Scenario C)
ScenarioC(ln, g0, g1) ==
    FunctionDef("too_strong", <<IntArg("x")>>,
                <<AssertStmt(Cmp(Name("x"), "GtE", Num(0)), ln + g0 + 1),
                  Assign("result", BinOp(Name("x"), "Add", Num(1)), ln + g0 + 2),
                  AssertStmt(Cmp(Name("result"), "Gt", BinOp(Name("x"), "Add", Num(10))),
                             ln + g0 + g1 + 3),
                  Return(Name("result"), ln + g0 + g1 + 4)>>, ln, ln + g0 + g1 + 4)

\* def f(x: int): assert x >= 0; result = x + 1; <blank>; assert result > x;
\* return result
Satisfiable(ln) ==
    FunctionDef("holds", <<IntArg("x")>>,
                <<AssertStmt(Cmp(Name("x"), "GtE", Num(0)), ln + 1),
                  Assign("result", BinOp(Name("x"), "Add", Num(1)), ln + 2),
                  AssertStmt(Cmp(Name("result"), "Gt", Name("x")), ln + 4),
                  Return(Name("result"), ln + 5)>>, ln, ln + 5)

\* def f(x: int): y = x + 1; assert y > x + 10; z = y; return z
MidAssert(ln) ==
    FunctionDef("mid_assert", <<IntArg("x")>>,
                <<Assign("y", BinOp(Name("x"), "Add", Num(1)), ln + 1),
                  AssertStmt(Cmp(Name("y"), "Gt", BinOp(Name("x"), "Add", Num(10))), ln + 2),
                  Assign("z", Name("y"), ln + 3),
                  Return(Name("z"), ln + 4)>>, ln, ln + 4)

\* def f(x: int): assert x >= 0; y = x; <blank>; <blank>; assert x + 1 > 0;
\* z = y; return z
LateCheck(ln) ==
    FunctionDef("late_check", <<IntArg("x")>>,
                <<AssertStmt(Cmp(Name("x"), "GtE", Num(0)), ln + 1),
                  Assign("y", Name("x"), ln + 2),
                  AssertStmt(Cmp(BinOp(Name("x"), "Add", Num(1)), "Gt", Num(0)), ln + 5),
                  Assign("z", Name("y"), ln + 6),
                  Return(Name("z"), ln + 7)>>, ln, ln + 7)

\* def f(x: int): y = x; <blank>; <blank>; assert x.real >= 0; return y
Untranslatable(ln) ==
    FunctionDef("untranslatable", <<IntArg("x")>>,
                <<Assign("y", Name("x"), ln + 1),
                  AssertStmt(Cmp(Attribute(Name("x"), "real"), "GtE", Num(0)), ln + 4),
                  Return(Name("y"), ln + 5)>>, ln, ln + 5)

\* def f(n: int): i = 0; while i < n: assert i >= 0; i = i + 1; <2 blank>;
\* assert n + 1 > n; <2 blank>; assert i == i
\* return i
Looping(ln) ==
    FunctionDef("looping", <<IntArg("n")>>,
                <<Assign("i", Num(0), ln + 1),
                  While(Cmp(Name("i"), "Lt", Name("n")),
                        <<AssertStmt(Cmp(Name("i"), "GtE", Num(0)), ln + 3),
                          Assign("i", BinOp(Name("i"), "Add", Num(1)), ln + 4),
                          AssertStmt(Cmp(BinOp(Name("n"), "Add", Num(1)), "Gt", Name("n")),
                                     ln + 7),
                          AssertStmt(Cmp(Name("i"), "Eq", Name("i")), ln + 10)>>, ln + 2),
                  Return(Name("i"), ln + 11)>>, ln, ln + 11)

BadAttribute(v) == Cmp(Attribute(Name(v), "real"), "GtE", Num(0))

\* def f(x: int): assert x >= 0; y = x; <g blank>; assert x.real >= 0;
\* <2 blank>; assert x + 1 > x; z = y; <2 blank>; assert z > 0; return z
Mixed(ln, g) ==
    FunctionDef("mixed", <<IntArg("x")>>,
                <<AssertStmt(Cmp(Name("x"), "GtE", Num(0)), ln + 1),
                  Assign("y", Name("x"), ln + 2),
                  AssertStmt(BadAttribute("x"), ln + g + 3),
                  AssertStmt(Cmp(BinOp(Name("x"), "Add", Num(1)), "Gt", Name("x")), ln + g + 6),
                  Assign("z", Name("y"), ln + g + 7),
                  AssertStmt(Cmp(Name("z"), "Gt", Num(0)), ln + g + 10),
                  Return(Name("z"), ln + g + 11)>>, ln, ln + g + 11)

\* def f(x: int): assert x >= 0; y = x; <2 blank>; assert y > 0; z = y;
\* <2 blank>; assert x + 1 > x; assert z.real >= 0; return z
PostRaises(ln) ==
    FunctionDef("post_raises", <<IntArg("x")>>,
                <<AssertStmt(Cmp(Name("x"), "GtE", Num(0)), ln + 1),
                  Assign("y", Name("x"), ln + 2),
                  AssertStmt(Cmp(Name("y"), "Gt", Num(0)), ln + 5),
                  Assign("z", Name("y"), ln + 6),
                  AssertStmt(Cmp(BinOp(Name("x"), "Add", Num(1)), "Gt", Name("x")), ln + 9),
                  AssertStmt(BadAttribute("z"), ln + 10),
                  Return(Name("z"), ln + 11)>>, ln, ln + 11)

\* def f(x: int): assert x >= 0; y = x; <2 blank>; assert y > 0; z = y;
\* <2 blank>; assert z > 0; assert z; return z
PostNotBool(ln) ==
    FunctionDef("post_not_bool", <<IntArg("x")>>,
                <<AssertStmt(Cmp(Name("x"), "GtE", Num(0)), ln + 1),
                  Assign("y", Name("x"), ln + 2),
                  AssertStmt(Cmp(Name("y"), "Gt", Num(0)), ln + 5),
                  Assign("z", Name("y"), ln + 6),
                  AssertStmt(Cmp(Name("z"), "Gt", Num(0)), ln + 9),
                  AssertStmt(Name("z"), ln + 10),
                  Return(Name("z"), ln + 11)>>, ln, ln + 11)

\* def f(x: int): assert x >= 0; w = x.real; result = x + 1; <blank>;
\* assert result > x; return result
Untyped(ln) ==
    FunctionDef("untyped", <<IntArg("x")>>,
                <<AssertStmt(Cmp(Name("x"), "GtE", Num(0)), ln + 1),
                  Assign("w", Attribute(Name("x"), "real"), ln + 2),
                  Assign("result", BinOp(Name("x"), "Add", Num(1)), ln + 3),
                  AssertStmt(Cmp(Name("result"), "Gt", Name("x")), ln + 5),
                  Return(Name("result"), ln + 6)>>, ln, ln + 6)

\* def f(x: int): w = x.real; <2 blank>; assert w > 0; y = x; <2 blank>;
\* assert w + 1 > w; z = y; <2 blank>; return z
Hinted(ln) ==
    FunctionDef("hinted", <<IntArg("x")>>,
                <<Assign("w", Attribute(Name("x"), "real"), ln + 1),
                  AssertStmt(Cmp(Name("w"), "Gt", Num(0)), ln + 4),
                  Assign("y", Name("x"), ln + 5),
                  AssertStmt(Cmp(BinOp(Name("w"), "Add", Num(1)), "Gt", Name("w")), ln + 8),
                  Assign("z", Name("y"), ln + 9),
                  Return(Name("z"), ln + 12)>>, ln, ln + 12)

\* the line of the def of a second function of a unit
SecondLine == 30

\* Scenario C with the statements on consecutive lines, with blank lines
\* before the postcondition, and below a long docstring
Layouts == {ScenarioC(1, 0, g1) : g1 \in 0 .. MaxGap} \cup {ScenarioC(1, NearStartLines, 0)}

Units ==
    {Module(<<f>>) : f \in Layouts
        \cup {ScenarioA(1), ScenarioB(1), MidAssert(1), LateCheck(1), Untranslatable(1),
              Looping(1), Satisfiable(SecondLine)}}
    \cup {Module(<<ScenarioC(1, 0, 1), Satisfiable(SecondLine)>>),
          Module(<<ScenarioC(1, 0, 1), ScenarioC(SecondLine, 0, 0)>>),
          Module(<<Untranslatable(1), Satisfiable(SecondLine)>>),
          Module(<<PostRaises(1)>>), Module(<<PostNotBool(1)>>), Module(<<Untyped(1)>>),
          Module(<<Hinted(1)>>)}
    \cup {Module(<<Mixed(1, g)>>) : g \in 0 .. MaxGap}

\* source texts ast.parse rejects: an incomplete expression (SyntaxError) and
\* operators nested beyond what the parser can hold (MemoryError)
BrokenSources == {[k |-> "Source", defect |-> d] : d \in {"incomplete", "too deep"}}

Sources == Units \cup BrokenSources

\* paths read_text fails on: no such file (FileNotFoundError), a directory
\* (IsADirectoryError), bytes that are not UTF-8 (UnicodeDecodeError)
UnreadablePaths == {[k |-> "Path", defect |-> d] : d \in {"missing", "directory", "not utf-8"}}


(***************************************************************************)
(* The orchestrator as a state machine.  pc is "idle" between calls,       *)
(* "loop" at the head of the loop of verify_source, "post" and "other"     *)
(* inside verify_function before each postcondition / other assertion,     *)
(* "raised" once a call has ended with an exception.                       *)
(***************************************************************************)
NoFunction == Absent

\* what a caller compares between two calls: per function the roles given to
\* its assertions and the verified and failed lists
classification_of(tree) ==
    LET all == find_all_assertions(tree)
    IN  [i \in 1 .. Len(all) |-> [line |-> all[i].line, type |-> all[i].assertion_type]]

outcome_of(res) ==
    [function_name |-> res.function_name, success |-> res.success,
     verified_assertions |-> res.verified_assertions,
     failed_assertions |-> res.failed_assertions,
     errors |-> res.errors]

NoRun == [unit |-> Module(<<>>), classification |-> <<>>, outcomes |-> <<>>]

completed_run(tree, rs) ==
    [unit |-> tree, classification |-> classification_of(tree),
     outcomes |-> [i \in 1 .. Len(rs) |-> outcome_of(rs[i])]]

\* for node in ast.walk(tree): if isinstance(node, ast.FunctionDef): the
\* functions left once the result of the current one is appended
remaining_functions_abort(functions, res) ==
    IF res.success THEN Tail(functions) ELSE <<>>

remaining_functions(functions, res) == Tail(functions)

\* VerificationOrchestrator(): nothing verified yet
NewOrchestratorState ==
    /\ pc = "idle"
    /\ unit = Module(<<>>)
    /\ todo = <<>>
    /\ func = NoFunction
    /\ infos = <<>>
    /\ pre = <<>>
    /\ post = <<>>
    /\ other = <<>>
    /\ assumed = <<>>
    /\ enc = NewTranslator
    /\ acc = <<>>
    /\ result = NewResult([name |-> ""])
    /\ results = <<>>
    /\ runs = [count |-> 0, last |-> NoRun]

\* no finder, translator or language server is running on its own
NoSideRuns ==
    /\ finder = 0
    /\ smt = 0
    /\ lsp = 0

Init ==
    /\ NewOrchestratorState
    /\ wp = 0
    /\ pur = 0
    /\ NoSideRuns

\* VerificationOrchestrator(): a fresh orchestrator with a fresh encoder
NewOrchestrator ==
    /\ pc = "idle"
    /\ runs.count > 0
    /\ enc' = NewTranslator
    /\ acc' = <<>>
    /\ UNCHANGED <<pc, unit, todo, func, infos, pre, post, other, assumed, result, results,
                   runs, wp, pur, sideVars>>

NoException == ""

\* ast.parse(source_code, filename=file_path)
ast_parse(source_code) ==
    IF source_code.k = "Module" THEN [raised |-> NoException, ast_tree |-> source_code]
    ELSE [raised |-> IF source_code.defect = "incomplete" THEN "SyntaxError" ELSE "MemoryError",
          ast_tree |-> Absent]

\* ASTParser.parse_source: a SyntaxError is raised again as a ValueError
parse_source(source_code) ==
    LET r == ast_parse(source_code)
    IN  IF r.raised = "SyntaxError" THEN [r EXCEPT !.raised = "ValueError"] ELSE r

\* Path(file_path).read_text()
read_text(file_path) ==
    IF file_path.defect = "" THEN [raised |-> NoException, text |-> file_path.text]
    ELSE [raised |-> CASE file_path.defect = "missing" -> "FileNotFoundError"
                       [] file_path.defect = "directory" -> "IsADirectoryError"
                       [] OTHER -> "UnicodeDecodeError",
          text |-> Absent]

\* a handler that lets everything but a ValueError through
except_ValueError(exc) == exc = "ValueError"

\* except Exception: the classes derived from Exception
except_Exception(exc) ==
    exc \in {"ValueError", "SyntaxError", "MemoryError", "FileNotFoundError",
             "IsADirectoryError", "UnicodeDecodeError"}

\* the except clauses of verify_source and verify_file: return [] when the
\* exception is caught, otherwise the call ends with the exception
return_empty(input, exc) ==
    /\ pc = "idle"
    /\ runs.count < MaxRuns
    /\ unit' = input
    /\ todo' = <<>>
    /\ results' = <<>>
    /\ IF except_Exception(exc)
       THEN /\ pc' = "idle"
            /\ runs' = [count |-> runs.count + 1, last |-> completed_run(input, <<>>)]
       ELSE /\ pc' = "raised"
            /\ UNCHANGED runs
    /\ UNCHANGED <<func, infos, pre, post, other, assumed, enc, result, wp, pur, sideVars>>

begin_source(u) ==
    /\ pc = "idle"
    /\ runs.count < MaxRuns
    /\ unit' = u
    /\ todo' = find_functions(u)
    /\ results' = <<>>
    /\ pc' = "loop"
    /\ UNCHANGED <<func, infos, pre, post, other, assumed, enc, result, runs, wp, pur, sideVars>>

\* verify_source(source_code) up to the head of its loop
verify_source(source_code) ==
    LET parsed_code == parse_source(source_code)
    IN  IF parsed_code.raised # NoException
        THEN return_empty(source_code, parsed_code.raised)
        ELSE begin_source(parsed_code.ast_tree)

\* the sources a caller passes: any source of the catalog to the first call
\* made, and to a later call the source of the call before it, a source with two
\* functions, a source whose function has no assertion or a source that does not
\* parse
LaterSources ==
    {Module(<<ScenarioC(1, 0, 1), Satisfiable(SecondLine)>>), Module(<<ScenarioB(1)>>)}
    \cup BrokenSources

SourcesOfCall ==
    IF runs.count = 0 THEN Sources
    ELSE LaterSources \cup (IF unit \in Units THEN {unit} ELSE {})

PathsOfCall ==
    {[k |-> "Path", defect |-> "", text |-> src] : src \in SourcesOfCall} \cup UnreadablePaths

VerifySource ==
    /\ pc = "idle"
    /\ \E source_code \in SourcesOfCall : verify_source(source_code) /\ UNCHANGED acc

\* verify_file(path): clear_accumulated_constraints(), then verify_source
VerifyFile ==
    /\ pc = "idle"
    /\ acc' = <<>>
    /\ \E file_path \in PathsOfCall :
          LET r == read_text(file_path)
          IN  IF r.raised # NoException
              THEN return_empty(file_path, r.raised)
              ELSE verify_source(r.text)

\* verify_function on a function that owns no assertion
VerifyFunctionNoAssertions ==
    /\ pc = "loop"
    /\ todo # <<>>
    /\ LET function_node == Head(todo)
           res == no_assertions_result(NewResult(function_node))
       IN  /\ function_assertions_of(unit, function_node) = <<>>
           /\ func' = function_node
           /\ infos' = <<>>
           /\ pre' = <<>>
           /\ post' = <<>>
           /\ other' = <<>>
           /\ assumed' = <<>>
           /\ result' = res
           /\ acc' = accumulate_constraints(acc, enc, function_node.name)
           /\ results' = Append(results, res)
           /\ todo' = remaining_functions(todo, res)
    /\ UNCHANGED <<pc, unit, enc, runs, wp, pur, sideVars>>

\* verify_function, steps 1 to 5: discovery, translator setup, assignment
\* constraints, grouping, preconditions
BeginFunction ==
    /\ pc = "loop"
    /\ todo # <<>>
    /\ LET function_node == Head(todo)
           function_assertions == function_assertions_of(unit, function_node)
           lists == verification_lists(function_assertions, function_node)
           e == add_assignment_constraints(setup_translator(enc, function_node),
                                           walk(function_node), 1)
           st == add_preconditions([enc |-> e, result |-> NewResult(function_node),
                                    assumed |-> <<>>], lists.preconditions, 1)
       IN  /\ function_assertions # <<>>
           /\ func' = function_node
           /\ infos' = function_assertions
           /\ pre' = lists.preconditions
           /\ post' = lists.postconditions
           /\ other' = lists.other_assertions
           /\ enc' = st.enc
           /\ result' = st.result
           /\ assumed' = st.assumed
    /\ pc' = "post"
    /\ UNCHANGED <<unit, todo, acc, results, runs, wp, pur, sideVars>>

\* step 6, one postcondition
CheckPostcondition ==
    /\ pc = "post"
    /\ post # <<>>
    /\ \E o \in check_assertion(enc, result, Head(post), "postcondition") :
          /\ enc' = o.enc
          /\ result' = o.result
    /\ post' = Tail(post)
    /\ UNCHANGED <<pc, unit, todo, func, infos, pre, other, assumed, acc, results, runs,
                   wp, pur, sideVars>>

\* step 7: reset the translator before the other assertions
ResetForOthers ==
    /\ pc = "post"
    /\ post = <<>>
    /\ other # <<>>
    /\ enc' = setup_translator(enc, func)
    /\ pc' = "other"
    /\ UNCHANGED <<unit, todo, func, infos, pre, post, other, assumed, acc, result, results,
                   runs, wp, pur, sideVars>>

\* step 7, one other assertion
CheckOther ==
    /\ pc = "other"
    /\ other # <<>>
    /\ \E o \in check_assertion(enc, result, Head(other), "assertion") :
          /\ enc' = o.enc
          /\ result' = o.result
    /\ other' = Tail(other)
    /\ UNCHANGED <<pc, unit, todo, func, infos, pre, post, assumed, acc, results, runs,
                   wp, pur, sideVars>>

\* the end of verify_function: success, the finally clause, results.append
FinishFunction ==
    /\ pc \in {"post", "other"}
    /\ post = <<>>
    /\ other = <<>>
    /\ LET res == final_result(result)
       IN  /\ result' = res
           /\ results' = Append(results, res)
           /\ todo' = remaining_functions(todo, res)
    /\ acc' = accumulate_constraints(acc, enc, func.name)
    /\ pc' = "loop"
    /\ UNCHANGED <<unit, func, infos, pre, post, other, assumed, enc, runs, wp, pur, sideVars>>

\* return results: the locals of verify_function are gone, the caller holds
\* the list
ReturnResults ==
    /\ pc = "loop"
    /\ todo = <<>>
    /\ runs' = [count |-> runs.count + 1, last |-> completed_run(unit, results)]
    /\ pc' = "idle"
    /\ func' = NoFunction
    /\ infos' = <<>>
    /\ pre' = <<>>
    /\ assumed' = <<>>
    /\ result' = NewResult([name |-> ""])
    /\ UNCHANGED <<unit, todo, post, other, enc, acc, results, wp, pur, sideVars>>

Next ==
    \/ NewOrchestrator
    \/ VerifySource
    \/ VerifyFile
    \/ VerifyFunctionNoAssertions
    \/ BeginFunction
    \/ CheckPostcondition
    \/ ResetForOthers
    \/ CheckOther
    \/ FinishFunction
    \/ ReturnResults

Spec == Init /\ [][Next]_vars

(***************************************************************************)
(* The orchestrator with a failure of its environment: the reset of the    *)
(* translator before the other assertions (a new solver, new datatype      *)
(* declarations) is outside the per-assertion handlers; when the solver    *)
(* library raises there, the handler at the function boundary takes over.  *)
(***************************************************************************)
\* self.smt_translator.reset() raises; except Exception as e:
\* result.errors.append(str(e)); the finally clause; return result
FunctionBoundaryException ==
    /\ pc = "post"
    /\ post = <<>>
    /\ other # <<>>
    /\ LET res == [result EXCEPT !.errors = Append(@, [step |-> "function",
                                                       error |-> "Z3Exception"])]
       IN  /\ result' = res
           /\ results' = Append(results, res)
           /\ todo' = remaining_functions(todo, res)
    /\ acc' = accumulate_constraints(acc, enc, func.name)
    /\ other' = <<>>
    /\ pc' = "loop"
    /\ UNCHANGED <<unit, func, infos, pre, post, assumed, enc, runs, wp, pur, sideVars>>

NextFaults ==
    \/ Next
    \/ FunctionBoundaryException

SpecFaults == Init /\ [][NextFaults]_vars

(***************************************************************************)
(* logic/weakest_precondition.py.  The calculator rewrites expression      *)
(* objects in place and builds new nodes that point at existing ones, so   *)
(* expressions live in a heap: a sequence of cells, the address of a node  *)
(* is its index, a cell holds the node without its children and the        *)
(* addresses of the children in the order of ast.iter_fields.              *)
(***************************************************************************)
NoAddr == 0

with_children(n, kids) ==
    CASE n.k = "BinOp" -> [n EXCEPT !.left = kids[1], !.right = kids[2]]
      [] n.k = "Compare" -> [n EXCEPT !.left = kids[1], !.comparators = Tail(kids)]
      [] n.k = "BoolOp" -> [n EXCEPT !.values = kids]
      [] n.k = "UnaryOp" -> [n EXCEPT !.operand = kids[1]]
      [] n.k = "Call" -> [n EXCEPT !.func = kids[1], !.args = Tail(kids)]
      [] n.k = "Attribute" -> [n EXCEPT !.value = kids[1]]
      [] n.k = "Lambda" -> [n EXCEPT !.defaults = SubSeq(kids, 1, Len(kids) - 1),
                                     !.body = kids[Len(kids)]]
      [] n.k = "JoinedStr" -> [n EXCEPT !.values = kids]
      [] OTHER -> n

cell(n, kids) == [shell |-> with_children(n, [i \in 1 .. Len(kids) |-> NoAddr]), kids |-> kids]

\* the expression tree an address stands for
RECURSIVE deref(_, _)
deref(h, a) ==
    with_children(h[a].shell, [i \in 1 .. Len(h[a].kids) |-> deref(h, h[a].kids[i])])

\* a tree put into the heap as fresh objects: the heap afterwards and the
\* address of the root (what ast.parse builds, and what copy.deepcopy of a
\* tree returns)
RECURSIVE store(_, _)
RECURSIVE store_list(_, _, _, _)
store_list(h, trees, i, addrs) ==
    IF i > Len(trees) THEN [h |-> h, addrs |-> addrs]
    ELSE LET r == store(h, trees[i])
         IN  store_list(r.h, trees, i + 1, Append(addrs, r.a))

store(h, tree) ==
    LET kids == store_list(h, iter_child_nodes(tree), 1, <<>>)
    IN  [h |-> Append(kids.h, cell(tree, kids.addrs)), a |-> Len(kids.h) + 1]

\* VariableSubstitutor.visit: visit_Name for a Name, generic_visit (which
\* assigns the visited children back into the node) for any other node
RECURSIVE visit(_, _, _, _)
RECURSIVE generic_visit(_, _, _, _, _)
generic_visit(h, a, i, var_name, replacement) ==
    IF i > Len(h[a].kids) THEN h
    ELSE LET r == visit(h, h[a].kids[i], var_name, replacement)
         IN  generic_visit([r.h EXCEPT ![a].kids[i] = r.a], a, i + 1, var_name, replacement)

visit(h, a, var_name, replacement) ==
    IF h[a].shell.k = "Name"
    THEN (IF h[a].shell.ctx = "Load" /\ h[a].shell.id = var_name
          THEN store(h, replacement)
          ELSE [h |-> h, a |-> a])
    ELSE [h |-> generic_visit(h, a, 1, var_name, replacement), a |-> a]

substitute_variable(h, expr, var_name, replacement) == visit(h, expr, var_name, replacement)

\* the statements of a parsed function: the tests of assert and if statements
\* are objects of the heap, the other expressions are never rewritten
RECURSIVE load_statements(_, _, _, _)
load_statements(h, stmts, i, done) ==
    IF i > Len(stmts) THEN [h |-> h, stmts |-> done]
    ELSE LET stmt == stmts[i]
         IN  CASE stmt.k = "Assert" ->
                    LET t == store(h, stmt.test)
                    IN  load_statements(t.h, stmts, i + 1,
                                        Append(done, [stmt EXCEPT !.test = t.a]))
               [] stmt.k = "If" ->
                    LET t == store(h, stmt.test)
                        body == load_statements(t.h, stmt.body, 1, <<>>)
                        orelse == load_statements(body.h, stmt.orelse, 1, <<>>)
                    IN  load_statements(orelse.h, stmts, i + 1,
                                        Append(done, [stmt EXCEPT !.test = t.a,
                                                                  !.body = body.stmts,
                                                                  !.orelse = orelse.stmts]))
               [] OTHER -> load_statements(h, stmts, i + 1, Append(done, stmt))

\* the statements with the trees their tests now stand for
RECURSIVE unload_statements(_, _)
unload_statements(h, stmts) ==
    [i \in 1 .. Len(stmts) |->
        CASE stmts[i].k = "Assert" -> [stmts[i] EXCEPT !.test = deref(h, @)]
          [] stmts[i].k = "If" ->
                [stmts[i] EXCEPT !.test = deref(h, @),
                                 !.body = unload_statements(h, @),
                                 !.orelse = unload_statements(h, @)]
          [] OTHER -> stmts[i]]

\* a WPResult with the heap and self.calculation_steps as the call leaves them;
\* intermediate is the intermediate_steps field of the result
WPResult(h, steps, outcome, condition, reason) ==
    [h |-> h, steps |-> steps, result |-> outcome, condition |-> condition, reason |-> reason,
     intermediate |-> <<>>]

create_negation(h, expr) ==
    [h |-> Append(h, cell(UnaryOp("Not", Absent), <<expr>>)), a |-> Len(h) + 1]

create_implication(h, antecedent, consequent) ==
    LET negated_antecedent == create_negation(h, antecedent)
    IN  [h |-> Append(negated_antecedent.h,
                      cell(BoolOp("Or", <<>>), <<negated_antecedent.a, consequent>>)),
         a |-> Len(negated_antecedent.h) + 1]

create_conjunction(h, left, right) ==
    [h |-> Append(h, cell(BoolOp("And", <<>>), <<left, right>>)), a |-> Len(h) + 1]

propagate_through_assignment(h, steps, condition, targets, value) ==
    IF Len(targets) # 1
    THEN WPResult(h, steps, "blocked", condition, "Multiple assignment targets not supported")
    ELSE IF targets[1].k # "Name"
    THEN WPResult(h, steps, "blocked", condition, "Complex assignment targets not supported")
    ELSE LET substituted_condition == substitute_variable(h, condition, targets[1].id, value)
         IN  WPResult(substituted_condition.h, steps, "success", substituted_condition.a,
                      "Substituted variable with assigned expression")

propagate_through_aug_assignment(h, steps, condition, aug_assign) ==
    IF aug_assign.target.k # "Name"
    THEN WPResult(h, steps, "blocked", condition,
                  "Complex augmented assignment targets not supported")
    ELSE propagate_through_assignment(h, steps, condition,
            <<StoreName(aug_assign.target.id)>>,
            BinOp(Name(aug_assign.target.id), aug_assign.op, aug_assign.value))

propagate_through_expression_stmt(h, steps, condition, expr_stmt) ==
    IF expr_stmt.value.k = "Constant"
    THEN WPResult(h, steps, "success", condition, "Pure literal expression has no effect")
    ELSE WPResult(h, steps, "blocked", condition, "Expression statement may have side effects")

propagate_through_assertion(h, steps, condition, assertion) ==
    WPResult(Append(h, cell(BoolOp("And", <<>>), <<assertion.test, condition>>)), steps,
             "success", Len(h) + 1, "Combined with preceding assertion")

RECURSIVE propagate_through_statement(_, _, _, _)
RECURSIVE calculate_wp_for_statements(_, _, _, _, _)
RECURSIVE propagate_through_if_statement(_, _, _, _)

propagate_through_statement(h, steps, condition, statement) ==
    CASE statement.k = "Assign" ->
            propagate_through_assignment(h, steps, condition, statement.targets, statement.value)
      [] statement.k = "AugAssign" ->
            propagate_through_aug_assignment(h, steps, condition, statement)
      [] statement.k = "Expr" -> propagate_through_expression_stmt(h, steps, condition, statement)
      [] statement.k = "Pass" ->
            WPResult(h, steps, "success", condition, "Pass statement has no effect")
      [] statement.k = "Assert" -> propagate_through_assertion(h, steps, condition, statement)
      [] statement.k = "If" -> propagate_through_if_statement(h, steps, condition, statement)
      [] OTHER -> WPResult(h, steps, "blocked", condition, "Impure statement type")

\* for stmt in reversed(statements): i counts down from Len(statements)
calculate_wp_for_statements(h, steps, statements, i, current_condition) ==
    IF i = 0
    THEN WPResult(h, steps, "success", current_condition,
                  "Successfully processed statement list")
    ELSE LET r == propagate_through_statement(h, steps, current_condition, statements[i])
         IN  IF r.result # "success" THEN r
             ELSE calculate_wp_for_statements(r.h, r.steps, statements, i - 1, r.condition)

propagate_through_if_statement(h, steps, condition, if_stmt) ==
    LET if_wp_result ==
            calculate_wp_for_statements(h, steps, if_stmt.body, Len(if_stmt.body), condition)
        else_wp_result ==
            IF if_stmt.orelse # <<>>
            THEN calculate_wp_for_statements(if_wp_result.h, if_wp_result.steps,
                                             if_stmt.orelse, Len(if_stmt.orelse), condition)
            ELSE [if_wp_result EXCEPT !.condition = condition]
        if_implication ==
            create_implication(else_wp_result.h, if_stmt.test, if_wp_result.condition)
        negated_test == create_negation(if_implication.h, if_stmt.test)
        else_implication ==
            create_implication(negated_test.h, negated_test.a, else_wp_result.condition)
        combined_condition ==
            create_conjunction(else_implication.h, if_implication.a, else_implication.a)
    IN  IF if_wp_result.result # "success"
        THEN [WPResult(if_wp_result.h, if_wp_result.steps, if_wp_result.result, condition,
                       "Failed to calculate WP for if branch")
                EXCEPT !.intermediate = if_wp_result.steps]
        ELSE IF else_wp_result.result # "success"
        THEN [WPResult(else_wp_result.h, else_wp_result.steps, else_wp_result.result,
                       condition, "Failed to calculate WP for else branch")
                EXCEPT !.intermediate = else_wp_result.steps]
        ELSE LET calculation_steps ==
                     Append(else_wp_result.steps, [text |-> "If statement WP"])
             IN  [WPResult(combined_condition.h, calculation_steps, "success",
                           combined_condition.a,
                           "Successfully calculated WP for if statement")
                    EXCEPT !.intermediate = calculation_steps]

\* the ASTTraverser the module defines for itself when it is imported
\* (TYPE_CHECKING is false at run time): it finds no function and no statement
stub_get_function_containing_node(node) == Absent

stub_get_statements_before_node(node) == <<>>

\* max_steps: int = 50
DefaultMaxSteps == 50

\* for stmt in reversed(preceding_statements): i counts down
RECURSIVE process_backward(_, _, _, _, _, _)
process_backward(h, steps, preceding_statements, i, current_condition, max_steps) ==
    IF i = 0
    THEN WPResult(h, steps, "success", current_condition,
                  "Successfully calculated weakest precondition")
    ELSE IF Len(steps) >= max_steps
    THEN WPResult(h, steps, "blocked", current_condition, "Maximum steps reached")
    ELSE LET r == propagate_through_statement(h, steps, current_condition,
                                              preceding_statements[i])
         IN  IF r.result = "success"
             THEN process_backward(r.h, Append(r.steps, [stmt |-> preceding_statements[i],
                                                          condition |-> r.condition]),
                                   preceding_statements, i - 1, r.condition, max_steps)
             ELSE IF r.result = "blocked"
             THEN WPResult(r.h, r.steps, "blocked", current_condition,
                           "Blocked by impure statement")
             ELSE r

\* the calculation over the statements that ASTTraverser of ast/parser.py
\* returns for the function the calculator was built on
calculate_with_parser_traverser(h, assertion, max_steps) ==
    LET preceding_statements == before_target(wp.body, assertion.lineno)
        r == process_backward(h, <<>>, preceding_statements, Len(preceding_statements),
                              assertion.test, max_steps)
    IN  [r EXCEPT !.intermediate = r.steps]

calculate_weakest_precondition(h, assertion, max_steps) ==
    LET containing_func == stub_get_function_containing_node(assertion)
        preceding_statements == stub_get_statements_before_node(assertion)
    IN  IF containing_func = Absent
        THEN [WPResult(h, <<>>, "blocked", assertion.test,
                       "Assertion not contained in a function") EXCEPT !.intermediate = <<>>]
        ELSE LET r == process_backward(h, <<>>, preceding_statements,
                                       Len(preceding_statements), assertion.test, max_steps)
             IN  [r EXCEPT !.intermediate = r.steps]

(***************************************************************************)
(* Properties of the orchestrator.                                         *)
(***************************************************************************)
\* the value Python gives an expression under an assignment of integers to
\* its names (True is 1, False is 0)
RECURSIVE value_of(_, _)
value_of(expr, env) ==
    CASE expr.k = "Constant" -> expr.value
      [] expr.k = "Name" -> env[expr.id]
      [] expr.k = "BinOp" ->
            (CASE expr.op = "Add" -> value_of(expr.left, env) + value_of(expr.right, env)
               [] expr.op = "Sub" -> value_of(expr.left, env) - value_of(expr.right, env)
               [] expr.op = "Mult" -> value_of(expr.left, env) * value_of(expr.right, env))
      [] expr.k = "Compare" ->
            LET operands == <<expr.left>> \o expr.comparators
                Related(o, a, b) ==
                    (CASE o = "Eq" -> a = b
                       [] o = "NotEq" -> a # b
                       [] o = "Lt" -> a < b
                       [] o = "LtE" -> a <= b
                       [] o = "Gt" -> a > b
                       [] o = "GtE" -> a >= b)
            IN  B2I(\A i \in 1 .. Len(expr.ops) :
                      Related(expr.ops[i], value_of(operands[i], env),
                              value_of(operands[i + 1], env)))
      [] expr.k = "BoolOp" ->
            (CASE expr.op = "And" ->
                    B2I(\A i \in 1 .. Len(expr.values) : value_of(expr.values[i], env) # 0)
               [] expr.op = "Or" ->
                    B2I(\E i \in 1 .. Len(expr.values) : value_of(expr.values[i], env) # 0))
      [] expr.k = "UnaryOp" ->
            (CASE expr.op = "Not" -> B2I(value_of(expr.operand, env) = 0)
               [] expr.op = "USub" -> 0 - value_of(expr.operand, env)
               [] expr.op = "UAdd" -> value_of(expr.operand, env))

names_of(expr) == {n.id : n \in {m \in Range(walk(expr)) : m.k = "Name"}}

\* the assignment binds the names of the expression and makes it true / false
satisfies(env, expr) == names_of(expr) \subseteq DOMAIN env /\ value_of(expr, env) # 0
falsifies(env, expr) == names_of(expr) \subseteq DOMAIN env /\ value_of(expr, env) = 0

\* the results of the running verify_source with the function each is about
Done == pc = "loop" /\ todo = <<>>
functions_of_unit == find_functions(unit)
owns_no_assertion(tree, fn) == function_assertions_of(tree, fn) = <<>>

\* C1: a function that owns no assertion gets a result with success = true and
\* empty verified, failed and error lists, whatever the encoder holds from the
\* functions verified before it
C1_NoAssertionsSucceed ==
    \A i \in 1 .. Len(results) :
        (i <= Len(functions_of_unit) /\ owns_no_assertion(unit, functions_of_unit[i]))
        => /\ results[i].success
           /\ results[i].verified_assertions = <<>>
           /\ results[i].failed_assertions = <<>>
           /\ results[i].errors = <<>>

\* a function without assertions has been verified on an encoder that still
\* holds the constraints of an earlier function
C1_Witness ==
    /\ pc = "loop"
    /\ results # <<>>
    /\ owns_no_assertion(unit, functions_of_unit[Len(results)])
    /\ result = results[Len(results)]
    /\ enc.assertions # <<>>

\* C2: an assertion the precondition step assumed (added to the solver and
\* reported verified) is never in failed_assertions of the same result
C2_AssumedNeverFailed ==
    \A i \in 1 .. Len(assumed) :
        assertion_desc(assumed[i]) \notin Range(result.failed_assertions)

TooStrong ==
    [type |-> "postcondition",
     test |-> Cmp(Name("result"), "Gt", BinOp(Name("x"), "Add", Num(10)))]

IsScenarioC(fn) == \E g0 \in {0, NearStartLines}, g1 \in 0 .. MaxGap, ln \in {1, SecondLine} :
                      fn = ScenarioC(ln, g0, g1)

\* C4: in every layout of Scenario C the result is success = false, with
\* result > x + 10 in failed_assertions and a counterexample that binds x to a
\* value >= 0
C4_ScenarioCFails ==
    \A i \in 1 .. Len(results) :
        (i <= Len(functions_of_unit) /\ IsScenarioC(functions_of_unit[i]))
        => /\ ~results[i].success
           /\ TooStrong \in Range(results[i].failed_assertions)
           /\ \E j \in 1 .. Len(results[i].counterexamples) :
                 LET c == results[i].counterexamples[j]
                 IN  /\ c.assertion = TooStrong
                     /\ "x" \in DOMAIN c.counterexample
                     /\ c.counterexample["x"] >= 0

sets_of(run) ==
    [i \in 1 .. Len(run.outcomes) |->
        [function_name |-> run.outcomes[i].function_name,
         verified |-> Range(run.outcomes[i].verified_assertions),
         failed |-> Range(run.outcomes[i].failed_assertions)]]

\* C8: a verify_source call on the source of the call before it, on the same
\* orchestrator or on a fresh one, gives every assertion the same role and every
\* function the same verified and failed sets
C8_RerunSameOutcome ==
    (Done /\ runs.count > 0 /\ runs.last.unit = unit)
    => /\ classification_of(unit) = runs.last.classification
       /\ sets_of(completed_run(unit, results)) = sets_of(runs.last)

\* a unit with a failed and a verified assertion has been verified again on the
\* orchestrator that verified it before, the encoder still holding constraints
C8_Witness ==
    /\ Done
    /\ runs.count > 0
    /\ runs.last.unit = unit
    /\ enc.assertions # <<>>
    /\ \E i \in 1 .. Len(results) : results[i].failed_assertions # <<>>
    /\ \E i \in 1 .. Len(results) : results[i].verified_assertions # <<>>

\* C9: verify_source gives one result per function definition, in the order of
\* the definitions, and the result of a function is the same whatever other
\* functions the unit holds
C9_OneResultPerFunction ==
    /\ pc = "loop" => Len(results) + Len(todo) = Len(functions_of_unit)
    /\ Done => \A i \in 1 .. Len(results) :
                  /\ results[i].function_name = functions_of_unit[i].name
                  /\ \A j \in 1 .. Len(runs.last.outcomes) :
                        find_functions(runs.last.unit)[j] = functions_of_unit[i]
                        => runs.last.outcomes[j] = outcome_of(results[i])

\* a unit of two functions, one failed and one successful, is done, and the call
\* before it verified one of the two functions alone
C9_Witness ==
    /\ Done
    /\ Len(results) = 2
    /\ \E i \in 1 .. 2 : results[i].success
    /\ \E i \in 1 .. 2 : ~results[i].success
    /\ Len(runs.last.outcomes) = 1
    /\ find_functions(runs.last.unit)[1] \in Range(functions_of_unit)

\* the rules of the classifier in their order, the last one always applicable
role_rules(a) ==
    <<[role |-> "precondition",
       applies |-> is_at_function_start(a.node, a.containing_function)],
      [role |-> "postcondition",
       applies |-> is_before_return(a.node, a.containing_function)],
      [role |-> "loop_invariant",
       applies |-> a.containing_loop # Absent
                   /\ is_at_loop_start(a.node, a.containing_loop)],
      [role |-> "termination",
       applies |-> is_termination_measure(a.node, a.containing_function)],
      [role |-> "general", applies |-> TRUE]>>

first_applicable(rules) ==
    rules[CHOOSE i \in 1 .. Len(rules) :
             rules[i].applies /\ \A j \in 1 .. (i - 1) : ~rules[j].applies].role

OnlyPrecondition == [type |-> "precondition", test |-> Cmp(Name("x"), "GtE", Num(0))]

\* C10: every assertion has the role of the first applicable rule in the order
\* Precondition, Postcondition, Loop invariant, Termination, General; the single
\* assertion of Scenario A is a Precondition and its result is success with that
\* precondition in the verified list
C10_FirstApplicableRole ==
    /\ \A i \in 1 .. Len(infos) : infos[i].assertion_type = first_applicable(role_rules(infos[i]))
    /\ \A i \in 1 .. Len(results) :
          (i <= Len(functions_of_unit) /\ functions_of_unit[i] = ScenarioA(1))
          => /\ results[i].success
             /\ OnlyPrecondition \in Range(results[i].verified_assertions)
             /\ results[i].failed_assertions = <<>>

\* Scenario A is verified: its assertion satisfies the Precondition and the
\* Postcondition rule
C10_Witness ==
    /\ pc = "loop"
    /\ func = ScenarioA(1)
    /\ results # <<>>
    /\ Len(infos) = 1
    /\ role_rules(infos[1])[1].applies
    /\ role_rules(infos[1])[2].applies

\* C11: a verify_source call on a source that cannot be parsed, or a
\* verify_file call on a file that cannot be read, returns to the caller (no
\* exception leaves the call) with an empty list of results
C11_UnparsableGivesNoResults ==
    unit.k # "Module" => (pc = "idle" /\ results = <<>> /\ runs.last.outcomes = <<>>)

\* verify_file has been called on a file that cannot be read, as the last of
\* the calls made on the orchestrator
C11_Witness ==
    /\ unit \in UnreadablePaths
    /\ runs.count = MaxRuns
    /\ pc = "idle"
    /\ results = <<>>

\* translating the assertion or searching its counterexample raises: the
\* test does not translate in the function's translator context, or its term is
\* not a Bool
raises(fn, info) ==
    LET r == translate_assertion(setup_translator(NewTranslator, fn), info.node)
    IN  r.err # NoErr \/ r.term.sort # "Bool"

reported(res) == Range(res.verified_assertions) \cup Range(res.failed_assertions)

C13_SuccessIffClean ==
    \A i \in 1 .. Len(results) :
        results[i].success
        <=> (results[i].errors = <<>> /\ results[i].failed_assertions = <<>>)

\* the verification of a function with an assumed precondition ended in the
\* handler at the function boundary
C13_Witness ==
    /\ pc = "loop"
    /\ \E j \in 1 .. Len(result.errors) : result.errors[j].step = "function"
    /\ result.verified_assertions # <<>>
    /\ ~result.success
    /\ result = results[Len(results)]

\* a step on which one postcondition or one other assertion is translated and
\* find_counterexample is called on it
CounterexampleQuery ==
    /\ pc \in {"post", "other"}
    /\ pc' = pc
    /\ post' # post \/ other' # other

\* C18: find_counterexample leaves the hard constraints of the encoder as they
\* were, whether it finds a counterexample, finds none or raises: after the
\* query the solver holds the assertions and the push marks it held before
C18_QueryLeavesConstraintsUnchanged ==
    [][CounterexampleQuery
       => /\ get_solver_assertions(enc') = get_solver_assertions(enc)
          /\ enc'.scopes = enc.scopes]_vars

\* a query has found a counterexample and another query has raised, and the
\* solver holds the constraints asserted before them
C18_Witness ==
    /\ pc = "post"
    /\ post = <<>>
    /\ result.counterexamples # <<>>
    /\ \E j \in 1 .. Len(result.errors) :
          result.errors[j] = [step |-> "postcondition", error |-> "Z3Exception"]
    /\ get_solver_assertions(enc) # <<>>
    /\ enc.scopes = <<>>

\* the assignments of a function that have one target, a simple name
simple_assignments(function_node) ==
    LET is_simple(node) ==
            node.k = "Assign" /\ Len(node.targets) = 1 /\ node.targets[1].k = "Name"
    IN  SelectSeq(walk(function_node), is_simple)

\* the encoder holds target == value for the assignment
holds_equality(e, node) ==
    LET value_expr == translate_expression(e, node.value)
        target_name == node.targets[1].id
    IN  /\ target_name \in DOMAIN e.variables
        /\ \E i \in 1 .. Len(get_solver_assertions(e)) :
              get_solver_assertions(e)[i]
                = Rel("Eq", e.variables[target_name].z3_var, value_expr.term)

\* C19: when the postconditions of a function are about to be checked, the
\* encoder holds the equality target == value for every assignment of the
\* function body to one simple name whose right-hand side translates, whatever
\* happened to the other assignments
C19_EveryAssignmentConstrained ==
    (pc = "post" /\ func # NoFunction)
    => \A i \in 1 .. Len(simple_assignments(func)) :
          LET node == simple_assignments(func)[i]
          IN  translate_expression(enc, node.value).err = NoErr => holds_equality(enc, node)

\* a step on which one assertion that is neither a precondition nor a
\* postcondition is checked
OtherAssertionChecked == pc = "other" /\ pc' = "other" /\ other # <<>> /\ other' = Tail(other)

\* the results the check of the assertion can leave when it is made on an
\* encoder freshly reset and set up for the function, which holds no constraint
\* and has translated no other assertion
recorded_on_fresh_encoder(function_node, res, info) ==
    {o.result : o \in check_assertion(setup_translator(NewTranslator, function_node), res,
                                      info, "assertion")}

\* the statements with pass in place of those that are dropped
RECURSIVE without_statements(_, _)
without_statements(stmts, dropped) ==
    [i \in 1 .. Len(stmts) |->
        IF stmts[i] \in dropped THEN Pass(stmts[i].lineno)
        ELSE CASE stmts[i].k = "If" ->
                    [stmts[i] EXCEPT !.body = without_statements(@, dropped),
                                     !.orelse = without_statements(@, dropped)]
               [] stmts[i].k = "While" ->
                    [stmts[i] EXCEPT !.body = without_statements(@, dropped)]
               [] OTHER -> stmts[i]]

\* the function with none of its other assertions but the given one
standing_alone(function_node, function_assertions, info) ==
    LET others == verification_lists(function_assertions, function_node).other_assertions
        dropped == {others[i].node : i \in 1 .. Len(others)} \ {info.node}
    IN  [function_node EXCEPT !.body = without_statements(@, dropped)]

catalog_functions == UNION {Range(find_functions(u)) : u \in Units}

\* C26: every accumulated assert form is labelled with the function whose
\* verification produced it: a function that owns no assertion returns before
\* the encoder is touched, so no constraint is listed under its name.
C26_DumpLabelsNameTheOrigin ==
    \A i \in 1 .. Len(acc) :
        \A fn \in catalog_functions :
            fn.name = acc[i].function => ~owns_no_assertion(Module(<<fn>>), fn)

occurrences(s, d) == Cardinality({i \in 1 .. Len(s) : s[i] = d})

\* C28: every assertion discovered in a function is reported exactly once in
\* the function's result: its description is in exactly one of
\* verified_assertions and failed_assertions, once, or it produced an error.
C28_EachAssertionReportedOnce ==
    \A i \in 1 .. Len(results) :
        i <= Len(functions_of_unit)
        => LET owned == function_assertions_of(unit, functions_of_unit[i])
           IN  \A j \in 1 .. Len(owned) :
                  LET times == occurrences(results[i].verified_assertions,
                                           assertion_desc(owned[j]))
                               + occurrences(results[i].failed_assertions,
                                             assertion_desc(owned[j]))
                  IN  /\ times <= 1
                      /\ times = 1 \/ results[i].errors # <<>>

\* C29: the assignment equality constraints of the function body are in force
\* for every counterexample search of the function: when an assertion that is
\* neither precondition nor postcondition is about to be checked, the encoder
\* holds target == value for every assignment to one simple name whose
\* right-hand side translates, as it does for a postcondition.
C29_AssignmentsInForceForOthers ==
    (pc = "other" /\ other # <<>>)
    => \A i \in 1 .. Len(simple_assignments(func)) :
          LET node == simple_assignments(func)[i]
          IN  translate_expression(enc, node.value).err = NoErr => holds_equality(enc, node)

(***************************************************************************)
(* The weakest-precondition calculator on its own: a function is parsed,   *)
(* then calculate_weakest_precondition or _propagate_through_statement is  *)
(* called on the assertion that ends its body.                             *)
(***************************************************************************)
\* calls made on one parsed function
MaxCalls == 2

WPFunction(body) == FunctionDef("f", <<Arg("c", ""), Arg("x", ""), Arg("y", "")>>, body, 1, 9)

\* x = e; assert P
AssignedValues == {Num(1), BinOp(Name("x"), "Add", Num(1)), Name("y")}

ShadowingLambda == Call(Lambda(<<"x">>, <<>>, Cmp(Name("x"), "Gt", Num(0))), <<Name("y")>>)

Postconditions ==
    {Cmp(Name("x"), "Gt", Num(1)), Name("x"),
     Cmp(BinOp(Name("x"), "Add", Name("y")), "Gt", Name("x")), ShadowingLambda}

AssignThenAssert(e, P) == WPFunction(<<Assign("x", e, 2), AssertStmt(P, 3)>>)

\* if c > 0: S1 else: S2; assert Q
Branches ==
    {<<Assign("x", Num(1), 3)>>, <<Pass(3)>>, <<Assign("x", BinOp(Name("x"), "Add", Num(1)), 3)>>}

ElseBranches == {<<>>, <<Assign("x", Num(2), 5)>>, <<Pass(5)>>}

IfThenAssert(S1, S2, Q) ==
    WPFunction(<<If(Cmp(Name("c"), "Gt", Num(0)), S1, S2, 2), AssertStmt(Q, 6)>>)

OtherBodies ==
    {<<AssertStmt(Cmp(Name("y"), "Gt", Num(0)), 2), AssertStmt(Cmp(Name("x"), "Gt", Num(1)), 3)>>,
     <<AugAssign("x", "Add", Num(1), 2), AssertStmt(Cmp(Name("x"), "Gt", Num(1)), 3)>>,
     <<Expr(Str(0), 2), AssertStmt(Cmp(Name("x"), "Gt", Num(1)), 3)>>,
     <<Expr(Call(Name("print"), <<Name("x")>>), 2), AssertStmt(Cmp(Name("x"), "Gt", Num(1)), 3)>>,
     <<While(Cmp(Name("x"), "Gt", Num(0)), <<Pass(3)>>, 2),
       AssertStmt(Cmp(Name("x"), "Gt", Num(1)), 4)>>,
     <<Pass(2), If(Cmp(Name("c"), "Gt", Num(0)), <<Assign("x", Num(1), 4)>>, <<>>, 3),
       AssertStmt(Cmp(Name("x"), "Gt", Num(1)), 5)>>,
     <<While(Cmp(Name("x"), "Gt", Num(0)), <<Pass(3)>>, 2), Assign("x", Name("y"), 4),
       AssertStmt(Cmp(Name("x"), "Gt", Num(1)), 5)>>}

WPFunctions ==
    {AssignThenAssert(e, P) : e \in AssignedValues, P \in Postconditions}
    \cup {IfThenAssert(S1, S2, Q) : S1 \in Branches, S2 \in ElseBranches,
                                    Q \in {Cmp(Name("x"), "Gt", Num(1)), Name("x")}}
    \cup {WPFunction(b) : b \in OtherBodies}

NoWPResult == [call |-> "none", statement |-> 0, max_steps |-> 0, result |-> "none",
               condition |-> NoAddr, reason |-> "", intermediate |-> <<>>]

\* ASTParser.parse_source, then WeakestPreconditionCalculator(parsed_code)
parsed(fn) ==
    LET loaded == load_statements(<<>>, fn.body, 1, <<>>)
    IN  [fn |-> fn, body |-> loaded.stmts, h |-> loaded.h, steps |-> <<>>, calls |-> 0,
         out |-> NoWPResult]

InitWP ==
    /\ NewOrchestratorState
    /\ wp \in {parsed(fn) : fn \in WPFunctions}
    /\ pur = 0
    /\ NoSideRuns

returned(w, call, j, max_steps, r) ==
    [w EXCEPT !.h = r.h, !.steps = r.steps, !.calls = @ + 1,
              !.out = [call |-> call, statement |-> j, max_steps |-> max_steps,
                       result |-> r.result,
                       condition |-> r.condition, reason |-> r.reason,
                       intermediate |-> r.intermediate]]

\* the step budgets a caller passes: a small one and the default
SmallBudget == 1

Budgets == {SmallBudget, DefaultMaxSteps}

\* calculate_weakest_precondition(assertion, max_steps) on the assertion that
\* ends the body
CalculateWeakestPrecondition ==
    /\ wp.calls < MaxCalls
    /\ \E max_steps \in Budgets :
          LET assertion == wp.body[Len(wp.body)]
          IN  wp' = returned(wp, "calculate", 0, max_steps,
                             calculate_weakest_precondition(wp.h, assertion, max_steps))
    /\ UNCHANGED <<orchVars, pur, sideVars>>

\* _propagate_through_statement(assertion.test, statement) for a statement that
\* precedes the assertion
PropagateThroughStatement ==
    /\ wp.calls < MaxCalls
    /\ \E j \in 1 .. (Len(wp.body) - 1) :
          wp' = returned(wp, "propagate", j, 0,
                         propagate_through_statement(wp.h, wp.steps,
                                                     wp.body[Len(wp.body)].test, wp.body[j]))
    /\ UNCHANGED <<orchVars, pur, sideVars>>

NextWP ==
    \/ CalculateWeakestPrecondition
    \/ PropagateThroughStatement

SpecWP == InitWP /\ [][NextWP]_vars

(***************************************************************************)
(* Properties of the weakest-precondition calculator.                      *)
(***************************************************************************)
\* P with e in place of every free read of x: a name bound by a lambda is not
\* free in the body of the lambda
RECURSIVE subst_free(_, _, _)
subst_free(P, x, e) ==
    CASE P.k = "Name" -> IF P.ctx = "Load" /\ P.id = x THEN e ELSE P
      [] P.k = "Lambda" ->
            [P EXCEPT !.defaults = [i \in 1 .. Len(@) |-> subst_free(@[i], x, e)],
                      !.body = IF x \in Range(P.args) THEN @ ELSE subst_free(@, x, e)]
      [] OTHER ->
            with_children(P, [i \in 1 .. Len(iter_child_nodes(P)) |->
                                 subst_free(iter_child_nodes(P)[i], x, e)])

IsAssignThenAssert(fn) ==
    /\ Len(fn.body) = 2
    /\ fn.body[1].k = "Assign"
    /\ fn.body[2].k = "Assert"

\* C5: for the body x = e; assert P, calculate_weakest_precondition on the
\* assertion returns Success with the condition P in which e stands for every free
\* read of x, and nothing else is changed
C5_AssignmentSubstitutes ==
    (wp.out.call = "calculate" /\ wp.calls = 1 /\ IsAssignThenAssert(wp.fn))
    => /\ wp.out.result = "success"
       /\ deref(wp.h, wp.out.condition)
            = subst_free(wp.fn.body[2].test, wp.fn.body[1].targets[1].id, wp.fn.body[1].value)

\* the weakest precondition of a condition over the modelled statements, by the
\* rules of the calculus, every branch computed from the condition it is given
RECURSIVE reference_wp(_, _, _)
reference_wp(stmts, i, Q) ==
    IF i = 0 THEN Q
    ELSE LET stmt == stmts[i]
         IN  reference_wp(stmts, i - 1,
               CASE stmt.k = "Assign" -> subst_free(Q, stmt.targets[1].id, stmt.value)
                 [] stmt.k = "Pass" -> Q
                 [] stmt.k = "If" ->
                       BoolOp("And",
                         <<BoolOp("Or", <<UnaryOp("Not", stmt.test),
                                          reference_wp(stmt.body, Len(stmt.body), Q)>>),
                           BoolOp("Or", <<stmt.test,
                                          reference_wp(stmt.orelse, Len(stmt.orelse), Q)>>)>>))

Environments == [{"c", "x", "y"} -> Dom]

\* the two conditions are true under the same assignments
equivalent(P, Q) == \A env \in Environments : (value_of(P, env) # 0) <=> (value_of(Q, env) # 0)

IsIfThenAssert(fn) ==
    /\ Len(fn.body) = 2
    /\ fn.body[1].k = "If"
    /\ fn.body[2].k = "Assert"

\* C6: for if B: S1 else: S2 followed by assert Q the calculator returns Success
\* with a condition that is (not B or wp(S1, Q)) and (B or wp(S2, Q)), each branch
\* computed from Q itself
C6_ConditionalRule ==
    (wp.out.call \in {"calculate", "propagate"} /\ wp.calls = 1 /\ IsIfThenAssert(wp.fn))
    => /\ wp.out.result = "success"
       /\ equivalent(deref(wp.h, wp.out.condition),
                     reference_wp(wp.fn.body, 1, wp.fn.body[2].test))

\* a step on which calculate_weakest_precondition is invoked and returns
CalculateReturns == wp'.calls = wp.calls + 1 /\ wp'.out.call = "calculate"

\* C14: calculate_weakest_precondition leaves the test of the target assertion
\* and every other node of the parsed function structurally as they were, and
\* an invocation that follows an invocation on the same assertion returns a
\* condition structurally equal to the one returned before
C14_CalculationLeavesTreeUnchanged ==
    [][CalculateReturns
       => /\ unload_statements(wp'.h, wp'.body) = unload_statements(wp.h, wp.body)
          /\ wp.out.call = "calculate"
             => /\ wp'.out.result = wp.out.result
                /\ deref(wp'.h, wp'.out.condition) = deref(wp.h, wp.out.condition)]_vars

mentions(expr, var_name) ==
    \E i \in 1 .. Len(walk(expr)) : walk(expr)[i].k = "Name" /\ walk(expr)[i].id = var_name

\* calculate_weakest_precondition has been invoked twice on the assertion that
\* follows x = x + 1 and reads x, nothing else has been invoked
C14_Witness ==
    /\ wp.calls = 2
    /\ wp.out.call = "calculate"
    /\ IsAssignThenAssert(wp.fn)
    /\ wp.fn.body[1].value = BinOp(Name("x"), "Add", Num(1))
    /\ mentions(wp.fn.body[2].test, "x")
    /\ unload_statements(wp.h, wp.body) = wp.fn.body

\* a statement of a kind the calculus has a rule for: an assignment to a name,
\* an augmented assignment to a name, pass, a literal, an assertion, or an if
\* whose branches hold such statements
RECURSIVE modelled_kind(_)
modelled_kind(stmt) ==
    CASE stmt.k = "Assign" -> Len(stmt.targets) = 1 /\ stmt.targets[1].k = "Name"
      [] stmt.k = "AugAssign" -> stmt.target.k = "Name"
      [] stmt.k = "Expr" -> stmt.value.k = "Constant"
      [] stmt.k \in {"Pass", "Assert"} -> TRUE
      [] stmt.k = "If" ->
            /\ \A i \in 1 .. Len(stmt.body) : modelled_kind(stmt.body[i])
            /\ \A i \in 1 .. Len(stmt.orelse) : modelled_kind(stmt.orelse[i])
      [] OTHER -> FALSE

\* the lines of the statements that precede the target assertion in its block,
\* the nearest first; the target is the statement that ends the function body
lines_before_target(fn) == [i \in 1 .. (Len(fn.body) - 1) |-> fn.body[Len(fn.body) - i].lineno]

\* the lines of the statements the walk went through, in the order it took them
lines_walked(out) ==
    LET has_statement(step) == "stmt" \in DOMAIN step
        taken == SelectSeq(out.intermediate, has_statement)
    IN  [i \in 1 .. Len(taken) |-> taken[i].stmt.lineno]

\* C15: the backward pass of calculate_weakest_precondition goes through the
\* statements that precede the target assertion in its block, the nearest
\* first, leaving none out, and stops early only at a statement the calculus has
\* no rule for
C15_WalksPrecedingStatements ==
    wp.out.call = "calculate"
    => LET expected == lines_before_target(wp.fn)
           taken == lines_walked(wp.out)
       IN  /\ Len(taken) <= Len(expected)
           /\ taken = SubSeq(expected, 1, Len(taken))
           /\ Len(taken) < Len(expected)
              => ~modelled_kind(wp.fn.body[Len(wp.fn.body) - Len(taken) - 1])

\* C16: with step budget n, calculate_weakest_precondition is cut off with
\* outcome Blocked for the budget reason exactly when more than n statements
\* precede the assertion, and a walk over at most n preceding statements of
\* modelled kinds ends in Success
C16_BudgetCutsOffExactly ==
    wp.out.call = "calculate"
    => LET preceding == SubSeq(wp.fn.body, 1, Len(wp.fn.body) - 1)
           cut_off == wp.out.result = "blocked" /\ wp.out.reason = "Maximum steps reached"
       IN  /\ cut_off <=> Len(preceding) > wp.out.max_steps
           /\ (/\ Len(preceding) <= wp.out.max_steps
               /\ \A i \in 1 .. Len(preceding) : modelled_kind(preceding[i]))
              => wp.out.result = "success"

\* the position of the statement the backward walk from the end of the body
\* meets first among those the calculus has no rule for, 0 when there is none
blocking_statement(fn) ==
    LET unmodelled == {i \in 1 .. (Len(fn.body) - 1) : ~modelled_kind(fn.body[i])}
    IN  IF unmodelled = {} THEN 0 ELSE CHOOSE i \in unmodelled : \A j \in unmodelled : j <= i

\* C17: when the backward walk of calculate_weakest_precondition meets a
\* statement of an unmodelled kind, the result is Blocked with a non-empty
\* reason and its condition is the one accumulated from the statements that
\* lie between the blocking statement and the assertion
C17_BlockedCarriesPartialCondition ==
    (wp.out.call = "calculate" /\ wp.calls = 1 /\ blocking_statement(wp.fn) # 0)
    => LET n == Len(wp.fn.body)
           walked == SubSeq(wp.fn.body, blocking_statement(wp.fn) + 1, n - 1)
       IN  /\ wp.out.result = "blocked"
           /\ wp.out.reason # ""
           /\ deref(wp.h, wp.out.condition)
                = reference_wp(walked, Len(walked), wp.fn.body[n].test)

(***************************************************************************)
(* ast/purity_analyzer.py: PurityAnalyzer.                                 *)
(***************************************************************************)
PURE_BUILTINS ==
    {"abs", "all", "any", "bin", "bool", "chr", "complex", "dict", "divmod", "enumerate",
     "float", "format", "frozenset", "hex", "int", "len", "list", "max", "min", "oct", "ord",
     "pow", "range", "reversed", "round", "set", "slice", "sorted", "str", "sum", "tuple",
     "type", "zip"}

PURE_MODULES ==
    {"math", "cmath", "decimal", "fractions", "statistics", "operator", "functools",
     "itertools"}

IMPURE_BUILTINS ==
    {"print", "input", "open", "exec", "eval", "compile", "__import__", "globals", "locals",
     "vars", "dir", "help", "id", "hash"}

PURE == "pure"
IMPURE == "impure"
UNKNOWN == "unknown"

PurityResult(level, reason) == [level |-> level, reason |-> reason]

\* PurityAnalyzer(parsed_code): no user-defined function is registered
NewPurityAnalyzer == [pure_functions |-> {}, impure_functions |-> {}]

mark_function_pure(an, func_name) ==
    [pure_functions |-> an.pure_functions \cup {func_name},
     impure_functions |-> an.impure_functions \ {func_name}]

mark_function_impure(an, func_name) ==
    [pure_functions |-> an.pure_functions \ {func_name},
     impure_functions |-> an.impure_functions \cup {func_name}]

\* the dotted name of the callee, as the sequence of its components
RECURSIVE get_function_name(_)
get_function_name(func_node) ==
    IF func_node.k = "Name" THEN <<func_node.id>>
    ELSE IF func_node.k = "Attribute"
         THEN get_function_name(func_node.value) \o <<func_node.attr>>
         ELSE <<"<complex>">>

RECURSIVE analyze_expression(_, _)
RECURSIVE first_not_pure(_, _, _, _)
RECURSIVE analyze_function_call(_, _)

\* the verdict of the first expression from position i on that is not pure,
\* otherwise the verdict given for an all-pure list
first_not_pure(an, exprs, i, all_pure) ==
    IF i > Len(exprs) THEN all_pure
    ELSE LET r == analyze_expression(an, exprs[i])
         IN  IF r.level # PURE THEN r ELSE first_not_pure(an, exprs, i + 1, all_pure)

analyze_function_call(an, node) ==
    LET func_name == get_function_name(node.func)
        simple == IF Len(func_name) = 1 THEN func_name[1] ELSE ""
        callee ==
            IF Len(func_name) = 1 /\ simple \in IMPURE_BUILTINS
            THEN PurityResult(IMPURE, "Call to impure builtin")
            ELSE IF Len(func_name) = 1 /\ simple \in PURE_BUILTINS
            THEN PurityResult(PURE, "Call to pure builtin")
            ELSE IF Len(func_name) = 1 /\ simple \in an.pure_functions
            THEN PurityResult(PURE, "Call to known pure function")
            ELSE IF Len(func_name) = 1 /\ simple \in an.impure_functions
            THEN PurityResult(IMPURE, "Call to known impure function")
            ELSE IF Len(func_name) > 1 /\ func_name[1] \in PURE_MODULES
            THEN PurityResult(PURE, "Call to function in pure module")
            ELSE PurityResult(IMPURE, "Unknown function call (conservative)")
    IN  first_not_pure(an, node.args, 1, callee)

analyze_expression(an, node) ==
    CASE node.k = "Constant" -> PurityResult(PURE, "Literal value")
      [] node.k = "Name" -> PurityResult(PURE, "Variable reference")
      [] node.k = "Attribute" ->
            (LET value_result == analyze_expression(an, node.value)
             IN  IF value_result.level = PURE
                 THEN PurityResult(PURE, "Attribute access on pure value")
                 ELSE value_result)
      [] node.k = "BinOp" ->
            (LET left_result == analyze_expression(an, node.left)
                 right_result == analyze_expression(an, node.right)
             IN  IF left_result.level = PURE /\ right_result.level = PURE
                 THEN PurityResult(PURE, "Binary operation on pure operands")
                 ELSE IF left_result.level = IMPURE THEN left_result
                 ELSE right_result)
      [] node.k = "Compare" ->
            (LET left_result == analyze_expression(an, node.left)
             IN  IF left_result.level # PURE THEN left_result
                 ELSE first_not_pure(an, node.comparators, 1,
                                     PurityResult(PURE, "Comparison of pure values")))
      [] node.k = "BoolOp" ->
            first_not_pure(an, node.values, 1,
                           PurityResult(PURE, "Boolean operation on pure values"))
      [] node.k = "UnaryOp" -> analyze_expression(an, node.operand)
      [] node.k = "Call" -> analyze_function_call(an, node)
      [] node.k = "Lambda" -> analyze_expression(an, node.body)
      [] OTHER -> PurityResult(UNKNOWN, "Unknown expression type")

RECURSIVE analyze_statement(_, _)
RECURSIVE analyze_if_statement(_, _)
RECURSIVE first_impure_statement(_, _, _, _)

\* the loops of _analyze_if_statement over node.body and node.orelse: the
\* first statement from position i on that is not pure makes the whole
\* statement impure with the given reason
first_impure_statement(an, stmts, i, reason) ==
    IF i > Len(stmts) THEN PurityResult(PURE, "")
    ELSE LET r == IF stmts[i].k = "If" /\ reason = "Else clause is impure"
                  THEN analyze_if_statement(an, stmts[i])
                  ELSE analyze_statement(an, stmts[i])
         IN  IF r.level # PURE
             THEN PurityResult(IMPURE,
                               IF stmts[i].k = "If" /\ reason = "Else clause is impure"
                               THEN "Elif clause is impure" ELSE reason)
             ELSE first_impure_statement(an, stmts, i + 1, reason)

analyze_if_statement(an, node) ==
    LET test_result == analyze_expression(an, node.test)
        body_result == first_impure_statement(an, node.body, 1, "If statement body is impure")
        orelse_result == first_impure_statement(an, node.orelse, 1, "Else clause is impure")
    IN  IF test_result.level # PURE
        THEN PurityResult(IMPURE, "If statement test is impure")
        ELSE IF body_result.level # PURE THEN body_result
        ELSE IF orelse_result.level # PURE THEN orelse_result
        ELSE PurityResult(PURE, "Pure conditional statement")

analyze_statement(an, node) ==
    CASE node.k = "Return" ->
            IF node.value # Absent THEN analyze_expression(an, node.value)
            ELSE PurityResult(PURE, "Return statement with no value")
      [] node.k = "Expr" -> analyze_expression(an, node.value)
      [] node.k = "Assign" ->
            (LET value_result == analyze_expression(an, node.value)
             IN  IF value_result.level # PURE THEN value_result
                 ELSE IF \E i \in 1 .. Len(node.targets) : node.targets[i].k # "Name"
                 THEN PurityResult(IMPURE, "Assignment to attribute or subscript")
                 ELSE PurityResult(PURE, "Assignment to local variables with pure RHS"))
      \* the assertions of the model carry no message
      [] node.k = "Assert" -> analyze_expression(an, node.test)
      [] node.k = "Pass" -> PurityResult(PURE, "Pass statement")
      [] node.k = "If" -> analyze_if_statement(an, node)
      [] node.k = "While" -> PurityResult(IMPURE, "Control flow statement")
      [] node.k = "FunctionDef" -> PurityResult(IMPURE, "Definition statement")
      [] OTHER -> PurityResult(IMPURE, "Statement type assumed impure")

analyze_node(an, node) ==
    IF node.k \in StmtKinds THEN analyze_statement(an, node)
    ELSE IF node.k \in ExprKinds THEN analyze_expression(an, node)
    ELSE PurityResult(UNKNOWN, "Unknown node type")

RECURSIVE analyze_function_body(_, _, _)
analyze_function_body(an, body, i) ==
    IF i > Len(body) THEN PurityResult(PURE, "Function body contains only pure constructs")
    ELSE LET stmt_result == analyze_node(an, body[i])
         IN  IF stmt_result.level = IMPURE
             THEN PurityResult(IMPURE, "Contains impure statement")
             ELSE IF stmt_result.level = UNKNOWN
             THEN PurityResult(IMPURE, "Contains unknown construct")
             ELSE analyze_function_body(an, body, i + 1)

analyze_function(an, func_node) == analyze_function_body(an, func_node.body, 1)

(***************************************************************************)
(* The purity analyzer on its own: an analyzer is constructed, functions   *)
(* are registered as pure or impure, then analyze_node is called on a      *)
(* statement and analyze_function on the function that holds it.           *)
(***************************************************************************)
\* names registered with mark_function_pure / mark_function_impure
UserFunctions == {"f"}

PrintCall == Call(Name("print"), <<Num(1)>>)

PurityLeaves ==
    {Num(1), Name("x"), PrintCall,
     Call(Name("abs"), <<Name("x")>>),
     Call(Name("f"), <<Name("x")>>),
     Call(Attribute(Name("math"), "sqrt"), <<Name("x")>>),
     Call(Attribute(Name("os"), "getcwd"), <<>>),
     Call(Lambda(<<>>, <<>>, Num(1)), <<>>),
     JoinedStr(<<Name("x")>>),
     Lambda(<<"d">>, <<PrintCall>>, Name("d")),
     Lambda(<<"d">>, <<Num(1)>>, Name("d")),
     Lambda(<<>>, <<>>, PrintCall)}

PurityExpressions ==
    PurityLeaves
    \cup {BinOp(e, "Add", Num(1)) : e \in PurityLeaves}
    \cup {BinOp(Num(1), "Add", e) : e \in PurityLeaves}
    \cup {BinOp(JoinedStr(<<Name("x")>>), "Add", e) : e \in PurityLeaves}
    \cup {Cmp(e, "Gt", Num(0)) : e \in PurityLeaves}
    \cup {Cmp(Num(0), "Lt", e) : e \in PurityLeaves}
    \cup {BoolOp("And", <<Name("x"), e>>) : e \in PurityLeaves}
    \cup {UnaryOp("Not", e) : e \in PurityLeaves}
    \cup {Attribute(e, "real") : e \in PurityLeaves}
    \cup {Call(Name("abs"), <<e>>) : e \in PurityLeaves}

AttributeAssign(v, ln) ==
    [k |-> "Assign", targets |-> <<Attribute(Name("self"), "v")>>, value |-> v, lineno |-> ln]

SimpleStatements(ln) ==
    {Return(e, ln) : e \in PurityLeaves \cup {Absent}}
    \cup {Expr(e, ln) : e \in PurityLeaves}
    \cup {Pass(ln), AttributeAssign(Num(1), ln), AugAssign("x", "Add", Num(1), ln),
          While(Cmp(Name("x"), "Gt", Num(0)), <<Pass(ln + 1)>>, ln),
          FunctionDef("h", <<>>, <<Pass(ln + 1)>>, ln, ln + 1)}

PurityStatements ==
    {Return(e, 2) : e \in PurityExpressions \cup {Absent}}
    \cup {Expr(e, 2) : e \in PurityExpressions}
    \cup {Assign("y", e, 2) : e \in PurityExpressions}
    \cup {AssertStmt(e, 2) : e \in PurityExpressions}
    \cup {If(e, <<Pass(3)>>, <<>>, 2) : e \in PurityExpressions}
    \cup {If(Cmp(Name("x"), "Gt", Num(0)), <<b>>, <<>>, 2) : b \in SimpleStatements(3)}
    \cup {If(Cmp(Name("x"), "Gt", Num(0)), <<Pass(3)>>, <<b>>, 2) : b \in SimpleStatements(5)}
    \cup {If(Cmp(Name("x"), "Gt", Num(0)), <<Pass(3)>>,
             <<If(Cmp(Name("x"), "Lt", Num(0)), <<b>>, <<>>, 4)>>, 2) : b \in SimpleStatements(5)}
    \cup SimpleStatements(2)

PurityFunction(stmt) == FunctionDef("g", <<Arg("x", "")>>, <<stmt>>, 1, 9)

NoVerdict == PurityResult("none", "")

InitPurity ==
    /\ NewOrchestratorState
    /\ wp = 0
    /\ NoSideRuns
    /\ pur \in {[an |-> NewPurityAnalyzer, fn |-> PurityFunction(stmt), verdict |-> NoVerdict,
                 function_verdict |-> NoVerdict] : stmt \in PurityStatements}

\* registrations are made before the analyses
MarkFunctionPure ==
    /\ pur.verdict = NoVerdict /\ pur.function_verdict = NoVerdict
    /\ \E func_name \in UserFunctions :
          pur' = [pur EXCEPT !.an = mark_function_pure(@, func_name)]
    /\ UNCHANGED <<orchVars, wp, sideVars>>

MarkFunctionImpure ==
    /\ pur.verdict = NoVerdict /\ pur.function_verdict = NoVerdict
    /\ \E func_name \in UserFunctions :
          pur' = [pur EXCEPT !.an = mark_function_impure(@, func_name)]
    /\ UNCHANGED <<orchVars, wp, sideVars>>

\* analyze_node(statement) on the statement of the function body
AnalyzeNode ==
    /\ pur' = [pur EXCEPT !.verdict = analyze_node(pur.an, pur.fn.body[1])]
    /\ UNCHANGED <<orchVars, wp, sideVars>>

\* analyze_function(func_node)
AnalyzeFunction ==
    /\ pur' = [pur EXCEPT !.function_verdict = analyze_function(pur.an, pur.fn)]
    /\ UNCHANGED <<orchVars, wp, sideVars>>

NextPurity ==
    \/ MarkFunctionPure
    \/ MarkFunctionImpure
    \/ AnalyzeNode
    \/ AnalyzeFunction

SpecPurity == InitPurity /\ [][NextPurity]_vars

(***************************************************************************)
(* Properties of the purity analyzer.                                      *)
(***************************************************************************)
\* the expressions and statements strictly inside a statement
sub_constructs(stmt) ==
    {n \in Range(walk(stmt)) : n # stmt /\ n.k \in StmtKinds \cup ExprKinds}

\* C7: once a statement has been analysed, if any sub-expression or nested
\* statement of it has verdict Impure or Unknown, the verdict returned for the
\* statement has level Impure.
C7_MonotonicPurity ==
    pur.verdict # NoVerdict
    => ((\E n \in sub_constructs(pur.fn.body[1]) :
            analyze_node(pur.an, n).level \in {IMPURE, UNKNOWN})
        => pur.verdict.level = IMPURE)

(***************************************************************************)
(* ast/assertion_finder.py.  The AssertionFinder on its own: one function  *)
(* is parsed and find_all_assertions classifies its assertions and files   *)
(* them in the function contract.                                          *)
(***************************************************************************)
\* lines one statement of the catalog may span
Stride == 4

\* statement shapes of the catalog; each starts on line ln
DocString(ln) == Expr(Str("doc"), ln)
Literal(ln) == Expr(Num(2), ln)
AssignLocal(ln) == Assign("y", Name("x"), ln)
AssertParam(ln) == AssertStmt(Cmp(Name("x"), "Gt", Num(0)), ln)
AssertLocal(ln) == AssertStmt(Cmp(Name("y"), "Eq", Num(0)), ln)
ReturnParam(ln) == Return(Name("x"), ln)
BranchReturning(ln) ==
    If(Cmp(Name("x"), "Gt", Num(0)), <<AssertLocal(ln + 1), Return(Name("y"), ln + 2)>>, <<>>, ln)
LoopAssertFirst(ln) ==
    While(Cmp(Name("x"), "Gt", Num(0)), <<AssertLocal(ln + 1), AssignLocal(ln + 2)>>, ln)
LoopAssertSecond(ln) ==
    While(Cmp(Name("x"), "Gt", Num(0)), <<AssignLocal(ln + 1), AssertLocal(ln + 2)>>, ln)
NestedLoop(ln) ==
    While(Cmp(Name("x"), "Gt", Num(0)), <<LoopAssertFirst(ln + 1)>>, ln)

Shapes == {"doc", "literal", "pass", "assign", "assert_param", "assert_local", "return",
           "branch", "loop", "loop_second", "nested_loop"}

statement_of(shape, ln) ==
    CASE shape = "doc" -> DocString(ln)
      [] shape = "literal" -> Literal(ln)
      [] shape = "pass" -> Pass(ln)
      [] shape = "assign" -> AssignLocal(ln)
      [] shape = "assert_param" -> AssertParam(ln)
      [] shape = "assert_local" -> AssertLocal(ln)
      [] shape = "return" -> ReturnParam(ln)
      [] shape = "branch" -> BranchReturning(ln)
      [] shape = "loop" -> LoopAssertFirst(ln)
      [] shape = "loop_second" -> LoopAssertSecond(ln)
      [] shape = "nested_loop" -> NestedLoop(ln)

\* longest function body of the catalog
MaxBody == 3

\* def f(x): with one statement per shape, statement i starting on line
\* 2 + Stride * (i - 1), so that no two nodes of the tree are equal
function_of(shapes) ==
    FunctionDef("f", <<Arg("x", "")>>,
                [i \in 1 .. Len(shapes) |-> statement_of(shapes[i], 2 + Stride * (i - 1))],
                1, 1 + Stride * Len(shapes))

FinderFunctions ==
    {function_of(shapes) : shapes \in UNION {[1 .. n -> Shapes] : n \in 1 .. MaxBody}}

\* FunctionContract(function, [], [], {}, [], termination_measures=[])
NewContract(fn) ==
    [function |-> fn, preconditions |-> <<>>, postconditions |-> <<>>,
     loop_invariants |-> EmptyMap, general_assertions |-> <<>>,
     termination_measures |-> <<>>]

add_to_contract(contract, assertion_info) ==
    CASE assertion_info.assertion_type = "precondition" ->
            [contract EXCEPT !.preconditions = Append(@, assertion_info)]
      [] assertion_info.assertion_type = "postcondition" ->
            [contract EXCEPT !.postconditions = Append(@, assertion_info)]
      [] assertion_info.assertion_type = "loop_invariant" ->
            (LET loop == assertion_info.containing_loop
             IN  IF loop = Absent THEN contract
                 ELSE [contract EXCEPT !.loop_invariants =
                          Put(@, loop, Append(Get(@, loop, <<>>), assertion_info))])
      [] assertion_info.assertion_type = "termination" ->
            [contract EXCEPT !.termination_measures = Append(@, assertion_info)]
      [] OTHER ->
            [contract EXCEPT !.general_assertions = Append(@, assertion_info)]

\* _add_to_function_contract: function_contracts is a dict keyed by function
add_to_function_contract(function_contracts, assertion_info) ==
    LET fn == assertion_info.containing_function
    IN  IF fn = Absent THEN function_contracts
        ELSE Put(function_contracts, fn,
                 add_to_contract(Get(function_contracts, fn, NewContract(fn)), assertion_info))

RECURSIVE contracts_of(_, _)
contracts_of(assertions, n) ==
    IF n = 0 THEN EmptyMap
    ELSE add_to_function_contract(contracts_of(assertions, n - 1), assertions[n])

\* AssertionFinder(parsed_code)
NewAssertionFinder(tree) ==
    [tree |-> tree, assertions |-> <<>>, function_contracts |-> EmptyMap]

InitFinder ==
    /\ NewOrchestratorState
    /\ wp = 0
    /\ pur = 0
    /\ finder \in {NewAssertionFinder(Module(<<fn>>)) : fn \in FinderFunctions}
    /\ smt = 0
    /\ lsp = 0

\* find_all_assertions(): both result fields are rebuilt from scratch
FindAllAssertions ==
    /\ LET assertions == find_all_assertions(finder.tree)
       IN  finder' = [finder EXCEPT !.assertions = assertions,
                                    !.function_contracts =
                                        contracts_of(assertions, Len(assertions))]
    /\ UNCHANGED <<orchVars, wp, pur, smt, lsp>>

NextFinder == FindAllAssertions

SpecFinder == InitFinder /\ [][NextFinder]_vars

(***************************************************************************)
(* Properties of the assertion finder.                                     *)
(***************************************************************************)
the_function == finder.tree.body[1]

is_doc_comment(stmt) ==
    stmt.k = "Expr" /\ stmt.value.k = "Constant" /\ stmt.value.ty = "str"

\* C21: an assertion is classified Precondition only if it is a direct
\* statement of the function body and every statement before it in the body
\* is a string-literal expression statement or another assertion.
C21_PreconditionOnlyAfterDocOrAsserts ==
    \A i \in 1 .. Len(finder.assertions) :
        finder.assertions[i].assertion_type = "precondition"
        => LET at == IndexOf(the_function.body, finder.assertions[i].node)
           IN  /\ at # 0
               /\ \A j \in 1 .. (at - 1) :
                     \/ is_doc_comment(the_function.body[j])
                     \/ the_function.body[j].k = "Assert"

\* the statement lists of a body: the body itself and the branch and loop
\* bodies nested in it
RECURSIVE blocks_in(_)
blocks_in(body) ==
    {body} \cup UNION {(CASE body[i].k = "If" ->
                                blocks_in(body[i].body) \cup blocks_in(body[i].orelse)
                          [] body[i].k = "While" -> blocks_in(body[i].body)
                          [] OTHER -> {}) : i \in 1 .. Len(body)}

\* the block an assertion is a direct statement of
containing_block(fn, node) == CHOOSE b \in blocks_in(fn.body) : node \in Range(b)

\* after position at, the block holds only assertions up to a return
return_follows(block, at) ==
    \E r \in (at + 1) .. Len(block) :
        /\ block[r].k = "Return"
        /\ \A j \in (at + 1) .. (r - 1) : block[j].k = "Assert"

\* C22: an assertion that is not a Precondition is classified Postcondition
\* exactly when, in the block that contains it (the function body or a nested
\* branch body), only assertions follow it until a return statement.
C22_PostconditionIffReturnFollowsInBlock ==
    \A i \in 1 .. Len(finder.assertions) :
        LET info == finder.assertions[i]
            block == containing_block(the_function, info.node)
        IN  info.assertion_type # "precondition"
            => (info.assertion_type = "postcondition"
                <=> return_follows(block, IndexOf(block, info.node)))

\* the loops of the tree whose body starts with the node
loops_started_by(tree, node) ==
    {l \in Range(walk(tree)) : IsLoop(l) /\ l.body # <<>> /\ l.body[1] = node}

\* C23: an assertion that is neither Precondition nor Postcondition and is
\* the first statement of the body of a loop, nested or not, is classified
\* LoopInvariant and recorded in the function contract under that loop.
C23_FirstInLoopIsLoopInvariant ==
    \A i \in 1 .. Len(finder.assertions) :
        LET info == finder.assertions[i]
        IN  \A loop \in loops_started_by(finder.tree, info.node) :
                info.assertion_type \notin {"precondition", "postcondition"}
                => /\ info.assertion_type = "loop_invariant"
                   /\ info \in Range(Get(Get(finder.function_contracts, the_function,
                                             NewContract(the_function)).loop_invariants,
                                         loop, <<>>))

(***************************************************************************)
(* logic/smt_translator.py.  The encoder on its own, driven in the order   *)
(* verify_function sets it up for one function (orchestrator.py 220-231):  *)
(* reset, type hints, parameter declarations, then translations.           *)
(***************************************************************************)
Float(v) == [k |-> "Constant", ty |-> "float", value |-> v]

\* statements over the parameter x and the local y that drive the inference
TypingStatements(ln) ==
    {AssertStmt(Cmp(Name("x"), "Is", NoneLit), ln),
     AssertStmt(Cmp(Name("x"), "IsNot", NoneLit), ln),
     AssertStmt(Cmp(Name("x"), "Gt", Num(0)), ln),
     AssertStmt(Cmp(Name("x"), "Gt", Float(1)), ln),
     AssertStmt(Cmp(UnaryOp("USub", Name("x")), "Lt", Num(0)), ln),
     AssertStmt(Cmp(BinOp(Name("x"), "Add", Num(1)), "Gt", Num(0)), ln),
     AssertStmt(Cmp(Name("y"), "Is", NoneLit), ln),
     Assign("x", NoneLit, ln),
     Assign("y", NoneLit, ln),
     Assign("y", Num(1), ln)}

Annotations == {"", "int", "float"}

TypingFunctions ==
    {FunctionDef("f", <<Arg("x", ann)>>, <<s>>, 1, 2) :
        ann \in Annotations, s \in TypingStatements(2)}
    \cup {FunctionDef("f", <<Arg("x", ann)>>, <<s, t>>, 1, 3) :
            ann \in Annotations, s \in TypingStatements(2), t \in TypingStatements(3)}

\* def f(a: int, b: int, c: int): assert 0 <= a <= b   (factorial_example.py 114)
ChainFunction ==
    FunctionDef("f", <<IntArg("a"), IntArg("b"), IntArg("c")>>,
                <<AssertStmt(Compare(Num(0), <<"LtE", "LtE">>, <<Name("a"), Name("b")>>), 2)>>,
                1, 2)

OrderOps == {"Eq", "NotEq", "Lt", "LtE", "Gt", "GtE"}

\* a op b, and the chains a op1 b op2 c
Comparisons ==
    {Cmp(Name("a"), o, Name("b")) : o \in OrderOps}
    \cup {Compare(Name("a"), <<o1, o2>>, <<Name("b"), Name("c")>>) : o1, o2 \in OrderOps}

\* the comparisons between parameters of the function
ComparisonsOver(fn) ==
    {expr \in Comparisons :
        \A n \in Range(walk(expr)) :
            n.k = "Name" => \E i \in 1 .. Len(fn.args) : fn.args[i].arg = n.id}

NoTranslation == [expr |-> Absent, term |-> PyNone, err |-> NoErr]

\* SMTTranslator() held for the verification of fn
NewEncoderRun(fn) == [fn |-> fn, e |-> NewTranslator, stage |-> "new", out |-> NoTranslation]

InitEncoder ==
    /\ NewOrchestratorState
    /\ wp = 0
    /\ pur = 0
    /\ finder = 0
    /\ smt \in {NewEncoderRun(fn) : fn \in TypingFunctions \cup {ChainFunction}}
    /\ lsp = 0

\* self.smt_translator.reset()
Reset ==
    /\ smt.stage # "reset"
    /\ smt' = [smt EXCEPT !.e = reset(@), !.stage = "reset", !.out = NoTranslation]
    /\ UNCHANGED <<orchVars, wp, pur, finder, lsp>>

\* self.smt_translator.add_type_hints_from_function(function_node)
AddTypeHintsFromFunction ==
    /\ smt.stage = "reset"
    /\ smt' = [smt EXCEPT !.e = add_type_hints_from_function(@, smt.fn), !.stage = "hinted"]
    /\ UNCHANGED <<orchVars, wp, pur, finder, lsp>>

\* for arg in function_node.args.args: get_or_create_variable(arg.arg, var_type)
DeclareParameters ==
    /\ smt.stage = "hinted"
    /\ smt' = [smt EXCEPT !.e = declare_parameters(@, smt.fn.args, 1), !.stage = "declared"]
    /\ UNCHANGED <<orchVars, wp, pur, finder, lsp>>

\* translate_expression(expr)
TranslateExpression ==
    /\ smt.stage = "declared"
    /\ \E expr \in ComparisonsOver(smt.fn) :
          LET r == translate_expression(smt.e, expr)
          IN  smt' = [smt EXCEPT !.e = r.enc,
                                 !.out = [expr |-> expr, term |-> r.term, err |-> r.err]]
    /\ UNCHANGED <<orchVars, wp, pur, finder, lsp>>

NextEncoder ==
    \/ Reset
    \/ AddTypeHintsFromFunction
    \/ DeclareParameters
    \/ TranslateExpression

SpecEncoder == InitEncoder /\ [][NextEncoder]_vars

(***************************************************************************)
(* Properties of the encoder.                                              *)
(***************************************************************************)
\* the sort a parameter annotation names
annotated_sort(annotation) ==
    CASE annotation = "int" -> "Int"
      [] annotation = "float" -> "Real"

\* C24: after the reset, each parameter is declared as a solver variable
\* whose sort is its annotated sort or, when it has no annotation, the sort
\* the type environment inferred for it.
C24_ParametersDeclaredWithInferredSort ==
    smt.stage = "declared"
    => \A i \in 1 .. Len(smt.fn.args) :
          LET a == smt.fn.args[i]
          IN  IF a.annotation # ""
              THEN smt.e.variables[a.arg].z3_var.sort = annotated_sort(a.annotation)
              ELSE a.arg \in DOMAIN smt.e.type_hints
                   => smt.e.variables[a.arg].z3_var.sort
                        = SortOfType(smt.e.type_hints[a.arg])

OptionalTypes == {"optional_int", "optional_real", "optional_bool", "optional_string"}

\* the names the function mentions, parameters and assignment targets included
variables_of(fn) ==
    {fn.args[i].arg : i \in 1 .. Len(fn.args)} \cup names_of(fn)

is_none_test(n) ==
    /\ n.k = "Compare"
    /\ \A i \in 1 .. Len(n.ops) : n.ops[i] \in {"Is", "IsNot"} /\ IsNoneLit(n.comparators[i])

compared_with_none(fn, v) ==
    \E n \in Range(walk(fn)) : is_none_test(n) /\ n.left = Name(v)

assigned_none(fn, v) ==
    \E n \in Range(walk(fn)) :
        n.k = "Assign" /\ IsNoneLit(n.value) /\ StoreName(v) \in Range(n.targets)

\* v occurs in an arithmetic expression or in a comparison that is not a None test
used_as_value(fn, v) ==
    \E n \in Range(walk(fn)) :
        /\ \/ n.k = "BinOp"
           \/ n.k = "UnaryOp" /\ n.op \in {"USub", "UAdd"}
           \/ n.k = "Compare" /\ ~is_none_test(n)
        /\ v \in names_of(n)

\* v gets a sort from somewhere else: an annotation or an assigned value
otherwise_hinted(fn, v) ==
    \/ \E i \in 1 .. Len(fn.args) : fn.args[i].arg = v /\ fn.args[i].annotation # ""
    \/ \E n \in Range(walk(fn)) :
          n.k = "Assign" /\ ~IsNoneLit(n.value) /\ StoreName(v) \in Range(n.targets)

\* C25: after type inference over a function, a variable compared with None
\* that also appears in arithmetic or in a non-None comparison never has an
\* Optional type hint; a variable that appears only in None comparisons or
\* None assignments and has no other hint has the hint Optional-Integer; an
\* explicit annotation is never overwritten by inference.
C25_OptionalOnlyForNoneOnlyVariables ==
    smt.stage \in {"hinted", "declared"}
    => \A v \in variables_of(smt.fn) :
          LET hint == Get(smt.e.type_hints, v, NoType)
          IN  /\ (compared_with_none(smt.fn, v) /\ used_as_value(smt.fn, v))
                 => hint \notin OptionalTypes
              /\ ((compared_with_none(smt.fn, v) \/ assigned_none(smt.fn, v))
                  /\ ~used_as_value(smt.fn, v) /\ ~otherwise_hinted(smt.fn, v))
                 => hint = "optional_int"
              /\ \A i \in 1 .. Len(smt.fn.args) :
                    (smt.fn.args[i].arg = v /\ smt.fn.args[i].annotation # "")
                    => hint = extract_type_from_annotation(smt.fn.args[i].annotation)

\* the Python value of each declared name under a model of the solver constants
python_names(e, m) == [n \in DOMAIN e.variables |-> m[e.variables[n].name]]

\* C30: the term a chained comparison a op1 b op2 c translates to is true
\* exactly when the Python comparison is true, for all integer values of a, b
\* and c.
C30_ChainedComparisonEquivalent ==
    (smt.out.expr # Absent /\ smt.out.err = NoErr /\ Len(smt.out.expr.ops) = 2)
    => \A m \in [{c.name : c \in TermConsts(smt.out.term)} -> Dom] :
          EvalTerm(smt.out.term, m) = value_of(smt.out.expr, python_names(smt.e, m))

(***************************************************************************)
(* lsp/server.py.  The language server: one module-global orchestrator,    *)
(* and for each document a verification that _verify_document hands to a   *)
(* thread of the default executor.  A thread runs verify_source on the     *)
(* shared orchestrator; between two of its steps on the encoder any other  *)
(* thread may run.                                                         *)
(***************************************************************************)
Uris == {"a.py", "b.py"}

\* the texts of the open documents, one function each
Documents ==
    {Module(<<ScenarioA(1)>>), Module(<<Satisfiable(1)>>), Module(<<ScenarioC(1, 0, 1)>>)}

NotCached == [k |-> "NotCached"]

\* no verification of the document is under way
Idle == [pc |-> "idle", fn |-> NoFunction, post |-> <<>>, result |-> NewResult([name |-> ""])]

\* orchestrator = VerificationOrchestrator(); verification_cache = {}
InitLsp ==
    /\ NewOrchestratorState
    /\ wp = 0
    /\ pur = 0
    /\ finder = 0
    /\ smt = 0
    /\ lsp = [smt_translator |-> NewTranslator,
              verification_cache |-> [u \in Uris |-> NotCached],
              threads |-> [u \in Uris |-> Idle]]

\* lsp_text_document__did_open -> _verify_document: run_in_executor(None,
\* self._run_verification, content, uri)
DidOpen(u) ==
    /\ lsp.threads[u].pc = "idle"
    /\ \E content \in Documents :
          lsp' = [lsp EXCEPT !.threads[u] =
                     [Idle EXCEPT !.pc = "queued", !.fn = find_functions(content)[1]]]
    /\ UNCHANGED <<orchVars, wp, pur, finder, smt>>

\* the executor thread, verify_function line 220: self.smt_translator.reset()
ThreadReset(u) ==
    /\ lsp.threads[u].pc = "queued"
    /\ lsp' = [lsp EXCEPT !.smt_translator = reset(@), !.threads[u].pc = "reset"]
    /\ UNCHANGED <<orchVars, wp, pur, finder, smt>>

\* the executor thread, lines 221-276: type hints, parameter declarations,
\* assignment constraints and the preconditions added to the solver
ThreadSetup(u) ==
    /\ lsp.threads[u].pc = "reset"
    /\ LET function_node == lsp.threads[u].fn
           function_assertions == function_assertions_of(Module(<<function_node>>),
                                                         function_node)
           lists == verification_lists(function_assertions, function_node)
           e == add_assignment_constraints(
                    declare_parameters(
                        add_type_hints_from_function(lsp.smt_translator, function_node),
                        function_node.args, 1),
                    walk(function_node), 1)
           st == add_preconditions([enc |-> e, result |-> NewResult(function_node),
                                    assumed |-> <<>>], lists.preconditions, 1)
       IN  lsp' = [lsp EXCEPT !.smt_translator = st.enc,
                              !.threads[u].pc = "post",
                              !.threads[u].post = lists.postconditions,
                              !.threads[u].result = st.result]
    /\ UNCHANGED <<orchVars, wp, pur, finder, smt>>

\* the executor thread, lines 278-315: one postcondition
ThreadCheckPostcondition(u) ==
    /\ lsp.threads[u].pc = "post"
    /\ lsp.threads[u].post # <<>>
    /\ \E o \in check_assertion(lsp.smt_translator, lsp.threads[u].result,
                                Head(lsp.threads[u].post), "postcondition") :
          lsp' = [lsp EXCEPT !.smt_translator = o.enc,
                             !.threads[u].result = o.result,
                             !.threads[u].post = Tail(@)]
    /\ UNCHANGED <<orchVars, wp, pur, finder, smt>>

\* the thread returns its results and _verify_document caches them
CacheResults(u) ==
    /\ lsp.threads[u].pc = "post"
    /\ lsp.threads[u].post = <<>>
    /\ lsp' = [lsp EXCEPT !.verification_cache[u] =
                              <<final_result(lsp.threads[u].result)>>,
                          !.threads[u] = Idle]
    /\ UNCHANGED <<orchVars, wp, pur, finder, smt>>

NextLsp ==
    \E u \in Uris :
        \/ DidOpen(u)
        \/ ThreadReset(u)
        \/ ThreadSetup(u)
        \/ ThreadCheckPostcondition(u)
        \/ CacheResults(u)

SpecLsp == InitLsp /\ [][NextLsp]_vars

(***************************************************************************)
(* Properties of the language server.                                      *)
(***************************************************************************)
\* the thread of the document is between its reset of the encoder and its
\* last counterexample search
on_encoder(u) == lsp.threads[u].pc \in {"reset", "post"}

\* C27: no two verifications that run at the same time operate on the same
\* encoder: while one document's verification is between its reset and its
\* last check, no other document's verification is on the shared encoder.
C27_VerificationsNotInterleaved ==
    \A u, v \in Uris : (on_encoder(u) /\ on_encoder(v)) => u = v

====
